---- MODULE Spec2Model ----
(***************************************************************************)
(* Dispatch-and-consume pipeline of django-dota2:                          *)
(*   common/messaging/batching.py   schedule_matches_for_processing        *)
(*   common/messaging/reliable.py   ReliableBrokerPublisher.publish        *)
(*   apps/core/services/processed_ids.py   RedisProcessedIDChecker         *)
(*   infrastructure/worker.py       CircuitBreaker, run_concurrently,      *)
(*                                  _process_chunk, process_match_batch    *)
(*   infrastructure/broker.py       ensure_broker_connected                *)
(* Every await of the Python code is a step boundary; the code between two *)
(* awaits of one coroutine is one atomic action (asyncio is cooperative).  *)
(***************************************************************************)
EXTENDS Integers, Sequences, FiniteSets, TLC

\* ------------------------------------------------------------------ bounds
MaxId == 3
MaxLen == 3
BATCH_SIZE == 2
DEDUP_BATCH_SIZE == 2
MAX_PUBLISH_CONCURRENCY == 2
MaxClears == 1
MaxCalls == 2
MaxExt == 2
MaxTime == 90
TICK_S == 30
CB_FAIL_THRESHOLD == 2
MAX_RETRIES == 2
MaxDelay == 3
MaxFactor == 2
DEFAULT_KEY_TTL_SEC == 60

\* ------------------------------------------------- constants of the program
PUB_MAX_RETRIES == 3
PAYLOAD_CONCURRENCY == 10
CB_RECOVERY_S == 60
STORE_MAX_RETRIES == 3
STORE_RETRY_DELAY == 1
RETRY_DELAY_S == 1

IDS == 1..MaxId
Scheds == {"s1"}
Handlers == {"h1"}

\* ------------------------------------------------------------- pure helpers
Min(a, b) == IF a < b THEN a ELSE b

RECURSIVE Pow(_, _)
Pow(b, n) == IF n = 0 THEN 1 ELSE b * Pow(b, n - 1)

Range(q) == {q[i] : i \in 1..Len(q)}

\* match_ids arguments: every sequence of IDs (duplicates allowed) up to MaxLen
Inputs == UNION {[1..n -> IDS] : n \in 0..MaxLen}

\* list(a_set): some enumeration of the set, each element once
Orderings(S) == {q \in [1..Cardinality(S) -> S] : \A i, j \in 1..Cardinality(S) : q[i] = q[j] => i = j}

RECURSIVE SumLen(_)
SumLen(qq) == IF qq = <<>> THEN 0 ELSE Len(Head(qq)) + SumLen(Tail(qq))

\* chunked(iterable, size): islice(it, size) until the slice is empty
chunkedDropTail(q, size) ==
  [k \in 1..(Len(q) \div size) |-> SubSeq(q, (k - 1) * size + 1, k * size)]

RECURSIVE chunked(_, _)
chunked(q, size) ==
  IF q = <<>> THEN <<>>
  ELSE <<SubSeq(q, 1, Min(size, Len(q)))>> \o chunked(SubSeq(q, Min(size, Len(q)) + 1, Len(q)), size)

\* ------------------------------------------------------------- dedup store
\* _process_batch: the IDs of the batch whose SMISMEMBER flag is false
NewIdsNoFilter(batch, members) == batch
NewIds(batch, members) == {i \in batch : ~(i \in members)}

\* _mark_batch_processed: SADD key ids (+ EXPIRE key ttl)
SAddDropped(members, ids) == members
SAdd(members, ids) == members \cup ids

\* a key without expiry, or no key
NoTtl == [armed |-> FALSE, at |-> 0]

\* the members of the set as Redis serves them at time t: none once the key has expired
Live(members, ttl, t) == IF ttl.armed /\ t >= ttl.at THEN {} ELSE members

\* the expiry of the key after SADD at time t: a key that SADD creates has none
TtlAfterSAdd(members, ttl, t) == IF Live(members, ttl, t) = {} THEN NoTtl ELSE ttl

\* EXPIRE key DEFAULT_KEY_TTL_SEC at time t: no effect when the key does not exist
Expire(members, ttl, t) ==
  IF Live(members, ttl, t) = {} THEN NoTtl ELSE [armed |-> TRUE, at |-> t + DEFAULT_KEY_TTL_SEC]

\* ids_to_publish when force is set (the dedup store is not consulted)
ForcedIdsFiltered(unique, members) == unique \ members
ForcedIds(unique, members) == unique

\* _publish_single: the two counters
SentAfterFullBatch(sent, batch) == sent + BATCH_SIZE
SentAfter(sent, batch) == sent + Len(batch)

FailedAfterLost(failed) == failed
FailedAfter(failed) == failed + 1

\* ---------------------------------------------------------------- state
VARIABLES
  processed,    \* the Redis SET processed:match_ids
  clears,       \* number of clear_processed calls so far
  connected,    \* broker._connection_status["connected"]
  sched,        \* per schedule call: the locals of schedule_matches_for_processing
  subscribed,   \* the consumer process is subscribed to the channel (app.run)
  channel,      \* messages published to the subscriber and not yet handled
  sentLog,      \* history: the messages of the current call that broker.publish accepted
  calls,        \* number of schedule calls each caller has made
  sSnap,        \* history: the dedup set when the call started
  sCleared,     \* history: a clear happened since the call started
  sPrev,        \* history: the caller's previous call and whether a clear followed its start
  now,          \* time.time(), in seconds since the worker started
  cb,           \* the module-level CircuitBreaker of worker.py
  cbHist,       \* history: guarded exits with an exception since the last normal exit, time of the last
  metrics,      \* worker_metrics
  handler,      \* per process_match_batch invocation: its message and its chunk tasks
  extCount,     \* number of messages other producers have published
  fetched,      \* history: the IDs passed to MatchFetcherService.fetch_and_cache
  fetchedOk,    \* history: the IDs of the fetch_and_cache calls that completed
  pub,          \* a direct call of ReliableBrokerPublisher.publish: its locals
  cancels,      \* history: the coroutines a cancellation has been delivered to
  retry,        \* a call of RedisProcessedIDChecker._retry_operation: its locals and what it did
  keyTtl,       \* the expiry of the key processed:match_ids in Redis
  mark,         \* a direct call of RedisProcessedIDChecker.mark_processed: its locals
  mgr           \* the WorkerManager of main(): its fields and its stop() callers

workVars == <<now, cb, cbHist, metrics, handler, extCount, fetched, fetchedOk>>

vars == <<processed, clears, connected, sched, subscribed, channel, sentLog, calls, sSnap, sCleared,
          sPrev, workVars, pub, cancels, retry, keyTtl, mark, mgr>>

\* the previous call of the caller, when it was not forced and returned a result
NoPrev == [returned |-> FALSE, unique |-> {}, cleared |-> FALSE]

NoResult == [kind |-> "none", initial_ids |-> 0, already_processed |-> 0, ids_to_publish |-> 0,
             ids_published |-> 0, batches_created |-> 0, batches_failed |-> 0]

PublishResult(kind, initial, already, toPublish, published, created, failed) ==
  [kind |-> kind, initial_ids |-> initial, already_processed |-> already, ids_to_publish |-> toPublish,
   ids_published |-> published, batches_created |-> created, batches_failed |-> failed]

IdleCall == [pc |-> "idle", force |-> FALSE, initial |-> 0, unique |-> {}, todo |-> {}, cur |-> {},
             new |-> {}, already |-> 0, batches |-> <<>>, tasks |-> <<>>, sent |-> 0, failed |-> 0,
             result |-> NoResult]

MatchBatchPayload(s, c, idx) ==
  [op |-> s, match_ids |-> c.batches[idx], force_update |-> c.force, batch_number |-> idx,
   total_batches |-> Len(c.batches), concurrency |-> PAYLOAD_CONCURRENCY, raw |-> "dict"]

NoMsg == [op |-> "none", match_ids |-> <<>>, force_update |-> FALSE, batch_number |-> 1,
          total_batches |-> 1, concurrency |-> PAYLOAD_CONCURRENCY, raw |-> "dict"]

NoGate == [consec |-> 0, elapsed |-> 0]

\* RetryConfig of reliable.py, the delays in units of initial_delay_s' default
RetryConfigs ==
  [max_retries : 0..PUB_MAX_RETRIES, initial_delay_s : 1..MaxDelay, backoff_factor : 1..MaxFactor,
   max_backoff_s : 1..MaxDelay]

Errors == {"ConnectionError", "TimeoutError"}

IdlePublish ==
  [pc |-> "idle", cfg |-> [max_retries |-> 0, initial_delay_s |-> 1, backoff_factor |-> 1, max_backoff_s |-> 1],
   attempt |-> 0, delay |-> 0, sleep |-> 0, last_exc |-> "None", cause |-> "None",
   sends |-> 0, okSends |-> 0, errLog |-> <<>>]

\* _retry_operation before it is called; `tries` logs the outcome of each attempt
IdleRetry == [pc |-> "idle", op |-> "none", attempt |-> 0, sleeps |-> <<>>, tries |-> <<>>, outcome |-> "none"]

\* mark_processed before it is called
IdleMark == [pc |-> "idle", ids |-> {}, todo |-> {}, cur |-> {}]

\* the callers of WorkerManager.stop: the tasks of the two signal handlers, and main
Callers == {"sigint", "sigterm", "main"}

\* WorkerManager.__init__, before main awaits start()
NewManager ==
  [start |-> "new", evt |-> FALSE, health |-> "none", runs |-> 0, torn |-> FALSE, appStop |-> "none",
   caller |-> [c \in Callers |-> "idle"]]

IdleHandler == [pc |-> "idle", msg |-> NoMsg, tasks |-> <<>>, outcome |-> "none", gate |-> NoGate]

Init ==
  /\ processed = {}
  /\ clears = 0
  /\ connected = FALSE
  /\ sched = [s \in Scheds |-> IdleCall]
  /\ subscribed = FALSE
  /\ channel = {}
  /\ sentLog = [s \in Scheds |-> {}]
  /\ calls = [s \in Scheds |-> 0]
  /\ sSnap = [s \in Scheds |-> {}]
  /\ sCleared = [s \in Scheds |-> FALSE]
  /\ sPrev = [s \in Scheds |-> NoPrev]
  /\ now = 0
  /\ cb = [failures |-> 0, last_failure |-> 0, state |-> "closed"]
  /\ cbHist = [consec |-> 0, at |-> 0]
  /\ metrics = [batches_processed |-> 0, batches_failed |-> 0, items_processed |-> 0, items_failed |-> 0]
  /\ handler = [h \in Handlers |-> IdleHandler]
  /\ extCount = 0
  /\ fetched = {}
  /\ fetchedOk = {}
  /\ pub = IdlePublish
  /\ cancels = {}
  /\ retry = IdleRetry
  /\ keyTtl = NoTtl
  /\ mark = IdleMark
  /\ mgr = NewManager

\* --------------------------------------------- schedule_matches_for_processing
\* lines 144-157 and the hand-over to _send_match_batches (line 161)
AfterFilterNoEarlyExit(c, new, already) ==
  [c EXCEPT !.pc = "connect", !.new = new, !.already = already, !.todo = {}, !.cur = {}]
AfterFilter(c, new, already) ==
  IF new = {}
  THEN [c EXCEPT !.pc = "done", !.new = new, !.already = already, !.todo = {}, !.cur = {},
                 !.result = PublishResult("early", c.initial, already, 0, 0, 0, 0)]
  ELSE [c EXCEPT !.pc = "connect", !.new = new, !.already = already, !.todo = {}, !.cur = {}]

\* filter_processed loop: next store batch, or the end of the loop
NextStoreBatchOnce(c, todo, new) == AfterFilter(c, new, Cardinality(c.unique) - Cardinality(new))

NextStoreBatch(c, todo, new) ==
  IF todo = {}
  THEN AfterFilter(c, new, Cardinality(c.unique) - Cardinality(new))
  ELSE [c EXCEPT !.pc = "query", !.todo = todo, !.new = new, !.cur = {}]

\* lines 119-143; `limit` bounds the number of calls the caller makes
ScheduleStart(s, match_ids, force, limit) ==
  /\ sched[s].pc \in {"idle", "done", "raised"}
  /\ calls[s] < limit
  /\ calls' = [calls EXCEPT ![s] = @ + 1]
  /\ LET unique == Range(match_ids)
         c0 == [IdleCall EXCEPT !.force = force, !.initial = Len(match_ids), !.unique = unique]
     IN sched' = [sched EXCEPT ![s] =
          IF force THEN AfterFilter(c0, ForcedIds(unique, processed), 0)
          ELSE IF unique = {} THEN AfterFilter(c0, {}, 0)
          ELSE [c0 EXCEPT !.pc = "query", !.todo = unique]]
  /\ sSnap' = [sSnap EXCEPT ![s] = processed]
  /\ sPrev' = [sPrev EXCEPT ![s] =
       IF sched[s].pc = "done" /\ ~sched[s].force
       THEN [returned |-> TRUE, unique |-> sched[s].unique, cleared |-> sCleared[s]]
       ELSE NoPrev]
  /\ sCleared' = [sCleared EXCEPT ![s] = FALSE]
  /\ sentLog' = [sentLog EXCEPT ![s] = {}]
  /\ UNCHANGED <<mgr, keyTtl, mark, retry, pub, cancels, processed, clears, connected, subscribed, channel, workVars>>

\* _process_batch, first await: SMISMEMBER of one store batch succeeds
FilterQuery(s, batch) ==
  /\ sched[s].pc = "query"
  /\ batch \subseteq sched[s].todo
  /\ Cardinality(batch) = Min(DEDUP_BATCH_SIZE, Cardinality(sched[s].todo))
  /\ LET c == sched[s]
         new_ids == NewIds(batch, processed)
     IN sched' = [sched EXCEPT ![s] =
          IF new_ids # {}
          THEN [c EXCEPT !.pc = "mark", !.cur = new_ids, !.todo = c.todo \ batch]
          ELSE NextStoreBatch(c, c.todo \ batch, c.new)]
  /\ UNCHANGED <<mgr, keyTtl, mark, retry, pub, cancels, processed, clears, connected, subscribed, channel, sentLog, calls, sSnap, sCleared, sPrev, workVars>>

\* _process_batch, second await: SADD + EXPIRE of the new IDs succeeds
FilterMark(s) ==
  /\ sched[s].pc = "mark"
  /\ processed' = SAdd(processed, sched[s].cur)
  /\ keyTtl' = Expire(SAdd(processed, sched[s].cur), TtlAfterSAdd(processed, keyTtl, now), now)
  /\ sched' = [sched EXCEPT ![s] = NextStoreBatch(sched[s], sched[s].todo, sched[s].new \cup sched[s].cur)]
  /\ UNCHANGED <<mgr, mark, retry, pub, cancels, clears, connected, subscribed, channel, sentLog, calls, sSnap, sCleared, sPrev, workVars>>

\* _retry_operation gives up (RedisError after MAX_RETRIES attempts): the error
\* leaves schedule_matches_for_processing, lines 137-139 are outside its try
FilterStoreError(s) ==
  /\ sched[s].pc \in {"query", "mark"}
  /\ sched' = [sched EXCEPT ![s].pc = "raised"]
  /\ UNCHANGED <<mgr, keyTtl, mark, retry, pub, cancels, processed, clears, connected, subscribed, channel, sentLog, calls, sSnap, sCleared, sPrev, workVars>>

\* _send_match_batches lines 65-81: the broker is (or gets) connected, slice
Connect(s, order) ==
  /\ sched[s].pc = "connect"
  /\ order \in Orderings(sched[s].new)
  /\ connected' = TRUE
  /\ LET batches == chunked(order, BATCH_SIZE)
     IN sched' = [sched EXCEPT ![s].pc = "publishing", ![s].batches = batches,
                               ![s].tasks = [i \in 1..Len(batches) |-> [st |-> "new", att |-> 0]],
                               ![s].sent = 0, ![s].failed = 0]
  /\ UNCHANGED <<mgr, keyTtl, mark, retry, pub, cancels, processed, clears, subscribed, channel, sentLog, calls, sSnap, sCleared, sPrev, workVars>>

\* ensure_broker_connected raises: lines 174-186, the degraded result
ConnectFail(s) ==
  /\ sched[s].pc = "connect"
  /\ ~connected
  /\ LET c == sched[s]
     IN \E order \in Orderings(c.new) :
          sched' = [sched EXCEPT ![s].pc = "done",
                      ![s].result = PublishResult("degraded", c.initial, c.already, Cardinality(c.new),
                                                  0, 0, Len(chunked(order, BATCH_SIZE)))]
  /\ UNCHANGED <<mgr, keyTtl, mark, retry, pub, cancels, processed, clears, connected, subscribed, channel, sentLog, calls, sSnap, sCleared, sPrev, workVars>>

InFlightNone(c) == 0
InFlight(c) == Cardinality({i \in 1..Len(c.tasks) : c.tasks[i].st \in {"sending", "sent", "exhausted"}})

\* _publish_single: `async with sem` acquired, publish() starts its first send
PubAcquire(s, i) ==
  /\ sched[s].pc = "publishing"
  /\ i \in 1..Len(sched[s].tasks)
  /\ sched[s].tasks[i].st = "new"
  /\ \A j \in 1..(i - 1) : sched[s].tasks[j].st # "new"
  /\ InFlight(sched[s]) < MAX_PUBLISH_CONCURRENCY
  /\ sched' = [sched EXCEPT ![s].tasks[i].st = "sending"]
  /\ UNCHANGED <<mgr, keyTtl, mark, retry, pub, cancels, processed, clears, connected, subscribed, channel, sentLog, calls, sSnap, sCleared, sPrev, workVars>>

\* ReliableBrokerPublisher.publish: one broker.publish succeeds (the publish is
\* shielded, it goes on when the schedule call has been cancelled)
PubSendOk(s, i) ==
  /\ sched[s].pc \in {"publishing", "cancelled"}
  /\ i \in 1..Len(sched[s].tasks)
  /\ sched[s].tasks[i].st = "sending"
  /\ sched' = [sched EXCEPT ![s].tasks[i].st = "sent"]
  /\ channel' = IF subscribed THEN channel \cup {MatchBatchPayload(s, sched[s], i)} ELSE channel
  /\ sentLog' = [sentLog EXCEPT ![s] = @ \cup {MatchBatchPayload(s, sched[s], i)}]
  /\ UNCHANGED <<mgr, keyTtl, mark, retry, pub, cancels, processed, clears, connected, subscribed, calls, sSnap, sCleared, sPrev, workVars>>

\* ReliableBrokerPublisher.publish: one broker.publish raises
PubSendFail(s, i) ==
  /\ sched[s].pc \in {"publishing", "cancelled"}
  /\ i \in 1..Len(sched[s].tasks)
  /\ sched[s].tasks[i].st = "sending"
  /\ sched' = [sched EXCEPT ![s].tasks[i] =
       IF @.att >= PUB_MAX_RETRIES THEN [@ EXCEPT !.st = "exhausted"] ELSE [@ EXCEPT !.att = @ + 1]]
  /\ UNCHANGED <<mgr, keyTtl, mark, retry, pub, cancels, processed, clears, connected, subscribed, channel, sentLog, calls, sSnap, sCleared, sPrev, workVars>>

\* _publish_single resumes after the shielded publish: lines 96-99
PubTaskDone(s, i) ==
  /\ sched[s].pc = "publishing"
  /\ i \in 1..Len(sched[s].tasks)
  /\ sched[s].tasks[i].st \in {"sent", "exhausted"}
  /\ sched' = [sched EXCEPT ![s] =
       IF @.tasks[i].st = "sent"
       THEN [@ EXCEPT !.tasks[i].st = "ok", !.sent = SentAfter(@, sched[s].batches[i])]
       ELSE [@ EXCEPT !.tasks[i].st = "failed", !.failed = FailedAfter(@)]]
  /\ UNCHANGED <<mgr, keyTtl, mark, retry, pub, cancels, processed, clears, connected, subscribed, channel, sentLog, calls, sSnap, sCleared, sPrev, workVars>>

\* the task group is finished: lines 109-115 and 162-169
ScheduleReturn(s) ==
  /\ sched[s].pc = "publishing"
  /\ \A i \in 1..Len(sched[s].tasks) : sched[s].tasks[i].st \in {"ok", "failed"}
  /\ LET c == sched[s]
     IN sched' = [sched EXCEPT ![s].pc = "done",
                    ![s].result = PublishResult("normal", c.initial, c.already, Cardinality(c.new),
                                                c.sent, Len(c.batches), c.failed)]
  /\ UNCHANGED <<mgr, keyTtl, mark, retry, pub, cancels, processed, clears, connected, subscribed, channel, sentLog, calls, sSnap, sCleared, sPrev, workVars>>

\* _publish_single under cancellation: a task that waits for the semaphore ends
\* there, one inside asyncio.shield leaves its publish running (lines 94-95)
CancelledTaskUnshielded(t) == IF t.st \in {"new", "sending"} THEN [t EXCEPT !.st = "cancelled"] ELSE t
CancelledTask(t) == IF t.st = "new" THEN [t EXCEPT !.st = "cancelled"] ELSE t

\* the caller cancels the schedule call while it is suspended: CancelledError
\* passes `except* Exception` and `except Exception`, lines 171-173 re-raise it;
\* the publish tasks waiting for the semaphore are cancelled with it
ScheduleCancel(s) ==
  /\ sched[s].pc \in {"query", "mark", "connect", "publishing"}
  /\ sched' = [sched EXCEPT ![s].pc = "cancelled",
                            ![s].tasks = [i \in 1..Len(sched[s].tasks) |-> CancelledTask(sched[s].tasks[i])]]
  /\ cancels' = cancels \cup {"schedule"}
  /\ UNCHANGED <<mgr, keyTtl, mark, retry, pub, processed, clears, connected, subscribed, channel, sentLog, calls, sSnap, sCleared,
                 sPrev, workVars>>

\* clear_processed: DEL key
ClearProcessed ==
  /\ clears < MaxClears
  /\ clears' = clears + 1
  /\ processed' = {}
  /\ keyTtl' = NoTtl
  /\ sCleared' = [s \in Scheds |-> sCleared[s] \/ calls[s] > 0]
  /\ UNCHANGED <<mgr, mark, retry, pub, cancels, connected, sched, subscribed, channel, sentLog, calls, sSnap, sPrev, workVars>>

SchedSteps ==
  \/ \E s \in Scheds, b \in SUBSET IDS : FilterQuery(s, b)
  \/ \E s \in Scheds : FilterMark(s)
  \/ \E s \in Scheds : FilterStoreError(s)
  \/ \E s \in Scheds : \E o \in Orderings(sched[s].new) : Connect(s, o)
  \/ \E s \in Scheds : ConnectFail(s)
  \/ \E s \in Scheds, i \in 1..MaxId : PubAcquire(s, i)
  \/ \E s \in Scheds, i \in 1..MaxId : PubSendOk(s, i)
  \/ \E s \in Scheds, i \in 1..MaxId : PubSendFail(s, i)
  \/ \E s \in Scheds, i \in 1..MaxId : PubTaskDone(s, i)
  \/ \E s \in Scheds : ScheduleReturn(s)

NextSched ==
  \/ \E s \in Scheds, m \in Inputs, f \in BOOLEAN : ScheduleStart(s, m, f, MaxCalls)
  \/ SchedSteps
  \/ ClearProcessed

\* ------------------------------------------- ReliableBrokerPublisher.publish
\* line 101: `if attempt >= self._cfg.max_retries: break`
RetriesExhaustedLate(attempt, cfg) == attempt > cfg.max_retries
RetriesExhausted(attempt, cfg) == attempt >= cfg.max_retries

\* line 113: delay = min(delay * backoff_factor, max_backoff_s)
NextDelay(delay, cfg) == Min(delay * cfg.backoff_factor, cfg.max_backoff_s)

\* _random_delay: random.uniform(0.0, base)
Jitter(base) == 0..base

\* lines 83-89: publish is called with some RetryConfig, the first send is issued
PublishStart(cfg) ==
  /\ pub.pc = "idle"
  /\ pub' = [IdlePublish EXCEPT !.pc = "sending", !.cfg = cfg, !.delay = cfg.initial_delay_s, !.sends = 1]
  /\ UNCHANGED <<mgr, keyTtl, mark, retry, processed, clears, connected, sched, subscribed, channel, sentLog, calls, sSnap, sCleared,
                 sPrev, workVars, cancels>>

\* lines 89-93: broker.publish returns, publish returns
PublishSendOk ==
  /\ pub.pc = "sending"
  /\ pub' = [pub EXCEPT !.pc = "returned", !.okSends = @ + 1]
  /\ UNCHANGED <<mgr, keyTtl, mark, retry, processed, clears, connected, sched, subscribed, channel, sentLog, calls, sSnap, sCleared,
                 sPrev, workVars, cancels>>

\* lines 99-112 and 115-123: broker.publish raises `exc`; the budget is used up
\* (BrokerPublishError from last_exc) or a jittered sleep starts
PublishSendFail(exc, sleep) ==
  /\ pub.pc = "sending"
  /\ sleep \in Jitter(pub.delay)
  /\ pub' = IF RetriesExhausted(pub.attempt, pub.cfg)
            THEN [pub EXCEPT !.pc = "raised", !.last_exc = exc, !.cause = exc, !.errLog = Append(@, exc)]
            ELSE [pub EXCEPT !.pc = "sleeping", !.last_exc = exc, !.sleep = sleep, !.errLog = Append(@, exc)]
  /\ UNCHANGED <<mgr, keyTtl, mark, retry, processed, clears, connected, sched, subscribed, channel, sentLog, calls, sSnap, sCleared,
                 sPrev, workVars, cancels>>

\* lines 112-113 and 86-89: the sleep is over, the delay grows, the next send is issued
PublishWake ==
  /\ pub.pc = "sleeping"
  /\ pub' = [pub EXCEPT !.pc = "sending", !.attempt = @ + 1, !.delay = NextDelay(@, pub.cfg), !.sleep = 0,
                        !.sends = @ + 1]
  /\ UNCHANGED <<mgr, keyTtl, mark, retry, processed, clears, connected, sched, subscribed, channel, sentLog, calls, sSnap, sCleared,
                 sPrev, workVars, cancels>>

\* lines 95-97: CancelledError is logged and re-raised
PublishCancelledSwallowed(p) ==
  [p EXCEPT !.pc = IF RetriesExhausted(p.attempt, p.cfg) THEN "raised" ELSE "sleeping"]
PublishCancelled(p) == [p EXCEPT !.pc = "cancelled"]

\* the caller cancels publish during broker.publish or during the backoff sleep
PublishCancel ==
  /\ pub.pc \in {"sending", "sleeping"}
  /\ pub' = PublishCancelled(pub)
  /\ cancels' = cancels \cup {"publish"}
  /\ UNCHANGED <<mgr, keyTtl, mark, retry, processed, clears, connected, sched, subscribed, channel, sentLog, calls, sSnap, sCleared,
                 sPrev, workVars>>

NextPublisher ==
  \/ \E cfg \in RetryConfigs : PublishStart(cfg)
  \/ PublishSendOk
  \/ \E e \in Errors, sl \in 0..MaxDelay : PublishSendFail(e, sl)
  \/ PublishWake

\* ------------------------------------ RedisProcessedIDChecker.mark_processed
\* lines 120-130: mark_processed(ids) on a checker that has a client; nothing to
\* do for no IDs
MarkStart(ids) ==
  /\ mark.pc \in {"idle", "returned"}
  /\ mark' = IF ids = {} THEN [IdleMark EXCEPT !.pc = "returned"]
             ELSE [IdleMark EXCEPT !.pc = "sadd", !.ids = ids, !.todo = ids]
  /\ UNCHANGED <<mgr, processed, clears, connected, sched, subscribed, channel, sentLog, calls, sSnap, sCleared,
                 sPrev, workVars, pub, cancels, retry, keyTtl>>

\* lines 132-134 and 188-192: the next store batch; the pipeline is not a
\* transaction, Redis executes its SADD
MarkSAdd(batch) ==
  /\ mark.pc = "sadd"
  /\ batch \subseteq mark.todo
  /\ Cardinality(batch) = Min(DEDUP_BATCH_SIZE, Cardinality(mark.todo))
  /\ processed' = SAdd(Live(processed, keyTtl, now), batch)
  /\ keyTtl' = TtlAfterSAdd(processed, keyTtl, now)
  /\ mark' = [mark EXCEPT !.pc = "expire", !.cur = batch, !.todo = @ \ batch]
  /\ UNCHANGED <<mgr, clears, connected, sched, subscribed, channel, sentLog, calls, sSnap, sCleared,
                 sPrev, workVars, pub, cancels, retry>>

\* Redis executes the pipeline's EXPIRE; the loop of line 132 goes on or ends
MarkExpire ==
  /\ mark.pc = "expire"
  /\ processed' = Live(processed, keyTtl, now)
  /\ keyTtl' = Expire(processed, keyTtl, now)
  /\ mark' = [mark EXCEPT !.pc = IF mark.todo = {} THEN "returned" ELSE "sadd", !.cur = {}]
  /\ UNCHANGED <<mgr, clears, connected, sched, subscribed, channel, sentLog, calls, sSnap, sCleared,
                 sPrev, workVars, pub, cancels, retry>>

\* ------------------------------- RedisProcessedIDChecker._retry_operation
\* the store calls that go through _retry_operation (lines 162, 194, 142, 152)
StoreOps == {"smismember", "pipeline", "scard", "delete"}

\* what one attempt of the operation does: it returns a value, raises a RedisError
\* (or a subclass), or raises something else
StoreResults == {"r0", "r1"}
RedisErrors == {"RedisError", "ConnectionError"}
OtherErrors == {"TypeError", "CancelledError"}

\* line 205: `if attempt < MAX_RETRIES - 1`, attempt counted from 0
StoreRetryLeftAlways(attempt) == attempt < STORE_MAX_RETRIES
StoreRetryLeft(attempt) == attempt < STORE_MAX_RETRIES - 1

\* line 206: RETRY_DELAY * (attempt + 1), in units of RETRY_DELAY
StoreDelay(attempt) == STORE_RETRY_DELAY * (attempt + 1)

\* lines 196-202: _retry_operation is called, the first attempt is issued
RetryStart(op) ==
  /\ retry.pc = "idle"
  /\ retry' = [IdleRetry EXCEPT !.pc = "calling", !.op = op]
  /\ UNCHANGED <<mgr, keyTtl, mark, processed, clears, connected, sched, subscribed, channel, sentLog, calls, sSnap, sCleared,
                 sPrev, workVars, pub, cancels>>

\* line 202: the operation returns, _retry_operation returns its value
RetryCallOk(v) ==
  /\ retry.pc = "calling"
  /\ retry' = [retry EXCEPT !.pc = "returned", !.outcome = v,
                            !.tries = Append(@, [kind |-> "ok", val |-> v])]
  /\ UNCHANGED <<mgr, keyTtl, mark, processed, clears, connected, sched, subscribed, channel, sentLog, calls, sSnap, sCleared,
                 sPrev, workVars, pub, cancels>>

\* lines 203-217 and 219: the operation raises a RedisError: sleep and go round
\* again, or, after the last attempt, leave the loop and raise last_error
RetryCallRedisError(e) ==
  /\ retry.pc = "calling"
  /\ retry' = IF StoreRetryLeft(retry.attempt)
              THEN [retry EXCEPT !.pc = "sleeping", !.sleeps = Append(@, StoreDelay(retry.attempt)),
                                 !.tries = Append(@, [kind |-> "redis", val |-> e])]
              ELSE [retry EXCEPT !.pc = "raised", !.outcome = e,
                                 !.tries = Append(@, [kind |-> "redis", val |-> e])]
  /\ UNCHANGED <<mgr, keyTtl, mark, processed, clears, connected, sched, subscribed, channel, sentLog, calls, sSnap, sCleared,
                 sPrev, workVars, pub, cancels>>

\* the operation raises an exception that `except RedisError` does not catch
RetryCallOtherError(e) ==
  /\ retry.pc = "calling"
  /\ retry' = [retry EXCEPT !.pc = "raised", !.outcome = e,
                            !.tries = Append(@, [kind |-> "other", val |-> e])]
  /\ UNCHANGED <<mgr, keyTtl, mark, processed, clears, connected, sched, subscribed, channel, sentLog, calls, sSnap, sCleared,
                 sPrev, workVars, pub, cancels>>

\* line 206 is over, line 200: the next attempt is issued
RetryWake ==
  /\ retry.pc = "sleeping"
  /\ retry' = [retry EXCEPT !.pc = "calling", !.attempt = @ + 1]
  /\ UNCHANGED <<mgr, keyTtl, mark, processed, clears, connected, sched, subscribed, channel, sentLog, calls, sSnap, sCleared,
                 sPrev, workVars, pub, cancels>>

NextRetry ==
  \/ \E op \in StoreOps : RetryStart(op)
  \/ \E v \in StoreResults : RetryCallOk(v)
  \/ \E e \in RedisErrors : RetryCallRedisError(e)
  \/ \E e \in OtherErrors : RetryCallOtherError(e)
  \/ RetryWake

\* ------------------------------------------------------------ CircuitBreaker
\* is_open (worker.py line 109)
IsOpenNoWindow(b, t) == b.state = "open"
IsOpen(b, t) == b.state = "open" /\ (t - b.last_failure) < CB_RECOVERY_S

\* __aexit__ with an exception (lines 120-125)
ExitFailureNoTrip(b, t) == [b EXCEPT !.failures = @ + 1, !.last_failure = t]
ExitFailureRestart(b, t) ==
  IF b.state = "open"
  THEN [failures |-> 1, last_failure |-> t, state |-> IF 1 >= CB_FAIL_THRESHOLD THEN "open" ELSE "closed"]
  ELSE [b EXCEPT !.failures = @ + 1, !.last_failure = t,
                 !.state = IF b.failures + 1 >= CB_FAIL_THRESHOLD THEN "open" ELSE @]
ExitFailure(b, t) ==
  [b EXCEPT !.failures = @ + 1, !.last_failure = t,
            !.state = IF b.failures + 1 >= CB_FAIL_THRESHOLD THEN "open" ELSE @]

\* __aexit__ without an exception (lines 126-130)
ExitSuccess(b) == [b EXCEPT !.failures = 0, !.state = "closed"]

\* __aenter__ raises (lines 113-117): the body of the `async with` does not run
\* and neither does __aexit__, the breaker keeps its fields
EnterRejectedCounted(b, t) == ExitFailure(b, t)
EnterRejected(b, t) == b

\* WorkerMetrics.record_success / record_failure (the float averages are left out)
RecordSuccess(m, size) ==
  [m EXCEPT !.batches_processed = @ + 1, !.items_processed = @ + size]
RecordFailure(m, size, failed_items) ==
  [m EXCEPT !.batches_failed = @ + 1, !.items_failed = @ + failed_items]

\* ------------------------------------------------------------ the consumer
\* The checker of _process_chunk is built without a client and never entered as a
\* context manager (worker.py line 188); the one of schedule gets get_redis_client().
WORKER_CHECKER_CLIENT == "None"

\* filter_processed lines 105-107: `if not self._client: raise RuntimeError`
ClientInitialized(client) == client # "None"

\* the domain action of a chunk: "ok" always completes, "invalid" always raises the
\* validation error, "flaky" completes or raises another error (or times out)
Fates == {"ok", "invalid", "flaky"}

ChunkIds(h, i) == Range(chunked(handler[h].msg.match_ids, BATCH_SIZE)[i])

\* asyncio.TaskGroup: the first task that fails cancels every task that is not done
CancelSiblings(tasks, i) ==
  [j \in 1..Len(tasks) |->
     IF j # i /\ tasks[j].st \in {"new", "fetching"} THEN [tasks[j] EXCEPT !.st = "cancelled"]
     ELSE tasks[j]]

TaskFails(tasks, i) == CancelSiblings([tasks EXCEPT ![i].st = "failed"], i)

RunningNone(tasks) == 0
Running(tasks) == Cardinality({j \in 1..Len(tasks) : tasks[j].st = "fetching"})

Max(a, b) == IF a > b THEN a ELSE b

\* WorkerManager.start: app.run() subscribes process_match_batch to the channel
WorkerStart ==
  /\ ~subscribed
  /\ subscribed' = TRUE
  /\ UNCHANGED <<mgr, keyTtl, mark, retry, pub, cancels, processed, clears, connected, sched, channel, sentLog, calls, sSnap, sCleared, sPrev,
                 workVars>>

\* another producer publishes a payload on the channel, its batch_number is the
\* producer's serial number; `limit` bounds the number of such payloads
ExternalPublish(m, limit) ==
  /\ subscribed
  /\ extCount < limit
  /\ extCount' = extCount + 1
  /\ channel' = channel \cup {[m EXCEPT !.batch_number = extCount + 1]}
  /\ UNCHANGED <<mgr, keyTtl, mark, retry, pub, cancels, processed, clears, connected, sched, subscribed, sentLog, calls, sSnap, sCleared, sPrev,
                 now, cb, cbHist, metrics, handler, fetched, fetchedOk>>

\* time passes
Tick ==
  /\ now + TICK_S <= MaxTime
  /\ now' = now + TICK_S
  /\ UNCHANGED <<mgr, keyTtl, mark, retry, pub, cancels, processed, clears, connected, sched, subscribed, channel, sentLog, calls, sSnap,
                 sCleared, sPrev, cb, cbHist, metrics, handler, extCount, fetched, fetchedOk>>

\* MatchBatchPayload.model_validate(_json): the constraints of types.py on the
\* fields this model carries (batch_number and total_batches are ge=1)
Validates(m) == m.batch_number >= 1 /\ m.total_batches >= 1

\* process_match_batch lines 223-236: the message as delivered is a str, a dict, a
\* MatchBatchPayload or something else
DecodeUnvalidated(m) == IF m.raw \in {"str", "dict", "payload"} THEN "ok" ELSE "invalid_type"
Decode(m) ==
  IF m.raw \in {"str", "dict"} THEN (IF Validates(m) THEN "ok" ELSE "validation_error")
  ELSE IF m.raw = "payload" THEN "ok"
  ELSE "invalid_type"

\* process_match_batch up to the first suspension: decode, record_batch_start,
\* the empty-batch exit, chunked, CircuitBreaker.__aenter__, the task group
Receive(h, m, fates) ==
  /\ handler[h].pc \in {"idle", "returned", "raised"}
  /\ m \in channel
  /\ channel' = channel \ {m}
  /\ LET chunks == chunked(m.match_ids, BATCH_SIZE)
         gate == [consec |-> cbHist.consec, elapsed |-> now - cbHist.at]
     IN /\ fates \in [1..Len(chunks) -> Fates]
        /\ IF Decode(m) # "ok"
           THEN /\ handler' = [handler EXCEPT ![h] =
                      [pc |-> "returned", msg |-> m, tasks |-> <<>>, outcome |-> "dropped", gate |-> NoGate]]
                /\ UNCHANGED metrics
           ELSE IF m.match_ids = <<>>
           THEN /\ handler' = [handler EXCEPT ![h] =
                      [pc |-> "returned", msg |-> m, tasks |-> <<>>, outcome |-> "empty", gate |-> NoGate]]
                /\ metrics' = RecordSuccess(metrics, 0)
           ELSE IF IsOpen(cb, now)
           THEN /\ handler' = [handler EXCEPT ![h] =
                      [pc |-> "raised", msg |-> m, tasks |-> <<>>, outcome |-> "rejected", gate |-> gate]]
                /\ UNCHANGED metrics
           ELSE /\ handler' = [handler EXCEPT ![h] =
                      [pc |-> "running", msg |-> m, outcome |-> "none", gate |-> gate,
                       tasks |-> [i \in 1..Len(chunks) |-> [st |-> "new", att |-> 0, slept |-> 0, fate |-> fates[i]]]]]
                /\ UNCHANGED metrics
  /\ cb' = IF Decode(m) = "ok" /\ m.match_ids # <<>> /\ IsOpen(cb, now) THEN EnterRejected(cb, now) ELSE cb
  /\ UNCHANGED <<mgr, keyTtl, mark, retry, pub, cancels, processed, clears, connected, sched, subscribed, sentLog, calls, sSnap, sCleared, sPrev,
                 now, cbHist, extCount, fetched, fetchedOk>>

\* guard(item): the semaphore is acquired and _process_chunk runs to its first
\* suspension: the dedup re-check of a non-forced chunk, then fetch_and_cache
ChunkStart(h, i) ==
  /\ handler[h].pc = "running"
  /\ i \in 1..Len(handler[h].tasks)
  /\ handler[h].tasks[i].st = "new"
  /\ \A j \in 1..(i - 1) : handler[h].tasks[j].st # "new"
  /\ Running(handler[h].tasks) < Max(1, handler[h].msg.concurrency)
  /\ LET t == handler[h].tasks
         ids == ChunkIds(h, i)
         new_ids == NewIds(ids, processed)
     IN IF handler[h].msg.force_update
        THEN /\ handler' = [handler EXCEPT ![h].tasks[i] = [@ EXCEPT !.st = "fetching", !.att = 1]]
             /\ fetched' = fetched \cup ids
             /\ UNCHANGED <<processed, keyTtl>>
        ELSE IF ~ClientInitialized(WORKER_CHECKER_CLIENT)
        THEN \* filter_processed raises before any suspension: the task fails in
             \* its first step, and so does every sibling created with it, before
             \* the task group gets to cancel anything
             /\ handler' = [handler EXCEPT ![h].tasks[i].st = "failed"]
             /\ UNCHANGED <<fetched, processed, keyTtl>>
        ELSE IF new_ids = {}
        THEN /\ handler' = [handler EXCEPT ![h].tasks[i].st = "ok"]
             /\ UNCHANGED <<fetched, processed, keyTtl>>
        ELSE /\ handler' = [handler EXCEPT ![h].tasks[i] = [@ EXCEPT !.st = "fetching", !.att = 1]]
             /\ fetched' = fetched \cup new_ids
             /\ processed' = SAdd(processed, new_ids)
             /\ keyTtl' = Expire(SAdd(processed, new_ids), TtlAfterSAdd(processed, keyTtl, now), now)
  /\ UNCHANGED <<mgr, mark, retry, pub, cancels, clears, connected, sched, subscribed, channel, sentLog, calls, sSnap,
                 sCleared, sPrev, now, cb, cbHist, metrics, extCount, fetchedOk>>

\* lines 200-201: `if not force: await checker.mark_processed(ids)`
MarkedAfterFetchAlways(force, members, ids) == SAdd(members, ids)
MarkedAfterFetch(force, members, ids) == IF force THEN members ELSE SAdd(members, ids)

\* fetch_and_cache completes within the timeout; a non-forced chunk is then marked
FetchOk(h, i) ==
  /\ handler[h].pc = "running"
  /\ i \in 1..Len(handler[h].tasks)
  /\ handler[h].tasks[i].st = "fetching"
  /\ handler[h].tasks[i].fate \in {"ok", "flaky"}
  /\ handler' = [handler EXCEPT ![h].tasks[i].st = "ok"]
  /\ fetchedOk' = fetchedOk \cup ChunkIds(h, i)
  /\ processed' = MarkedAfterFetch(handler[h].msg.force_update, processed, ChunkIds(h, i))
  /\ keyTtl' = IF handler[h].msg.force_update THEN keyTtl
               ELSE Expire(SAdd(processed, ChunkIds(h, i)), TtlAfterSAdd(processed, keyTtl, now), now)
  /\ UNCHANGED <<mgr, mark, retry, pub, cancels, clears, connected, sched, subscribed, channel, sentLog, calls, sSnap, sCleared, sPrev,
                 now, cb, cbHist, metrics, extCount, fetched>>

\* fetch_and_cache raises DjangoValidationError: no retry (lines 203-205)
FetchInvalidRetried(h, i) ==
  /\ handler[h].pc = "running"
  /\ i \in 1..Len(handler[h].tasks)
  /\ handler[h].tasks[i].st = "fetching"
  /\ handler[h].tasks[i].fate = "invalid"
  /\ handler' = [handler EXCEPT ![h].tasks =
       IF @[i].att >= MAX_RETRIES THEN TaskFails(@, i)
       ELSE [@ EXCEPT ![i].att = @ + 1, ![i].slept = @ + RETRY_DELAY_S * Pow(2, handler[h].tasks[i].att - 1)]]
  /\ UNCHANGED <<mgr, keyTtl, mark, retry, pub, cancels, processed, clears, connected, sched, subscribed, channel, sentLog, calls, sSnap,
                 sCleared, sPrev, now, cb, cbHist, metrics, extCount, fetched, fetchedOk>>

FetchInvalid(h, i) ==
  /\ handler[h].pc = "running"
  /\ i \in 1..Len(handler[h].tasks)
  /\ handler[h].tasks[i].st = "fetching"
  /\ handler[h].tasks[i].fate = "invalid"
  /\ handler' = [handler EXCEPT ![h].tasks = TaskFails(@, i)]
  /\ UNCHANGED <<mgr, keyTtl, mark, retry, pub, cancels, processed, clears, connected, sched, subscribed, channel, sentLog, calls, sSnap,
                 sCleared, sPrev, now, cb, cbHist, metrics, extCount, fetched, fetchedOk>>

\* fetch_and_cache raises another error or times out: retry with backoff, or give
\* up at attempt MAX_RETRIES (lines 206-212); `slept` adds up the backoff sleeps
FetchError(h, i) ==
  /\ handler[h].pc = "running"
  /\ i \in 1..Len(handler[h].tasks)
  /\ handler[h].tasks[i].st = "fetching"
  /\ handler[h].tasks[i].fate = "flaky"
  /\ handler' = [handler EXCEPT ![h].tasks =
       IF @[i].att >= MAX_RETRIES THEN TaskFails(@, i)
       ELSE [@ EXCEPT ![i].att = @ + 1, ![i].slept = @ + RETRY_DELAY_S * Pow(2, handler[h].tasks[i].att - 1)]]
  /\ UNCHANGED <<mgr, keyTtl, mark, retry, pub, cancels, processed, clears, connected, sched, subscribed, channel, sentLog, calls, sSnap,
                 sCleared, sPrev, now, cb, cbHist, metrics, extCount, fetched, fetchedOk>>

NumFailedNone(tasks) == 0
NumFailed(tasks) == Cardinality({j \in 1..Len(tasks) : tasks[j].st = "failed"})

\* the task group is finished: except*/else of run_concurrently, then
\* CircuitBreaker.__aexit__, then process_match_batch returns or re-raises
HandlerFinish(h) ==
  /\ handler[h].pc = "running"
  /\ \A j \in 1..Len(handler[h].tasks) : handler[h].tasks[j].st \in {"ok", "failed", "cancelled"}
  /\ LET t == handler[h].tasks
     IN IF NumFailed(t) > 0
        THEN /\ metrics' = RecordFailure(metrics, Len(t), NumFailed(t))
             /\ cb' = ExitFailure(cb, now)
             /\ cbHist' = [consec |-> cbHist.consec + 1, at |-> now]
             /\ handler' = [handler EXCEPT ![h].pc = "raised", ![h].outcome = "failed"]
        ELSE /\ metrics' = RecordSuccess(metrics, Len(t))
             /\ cb' = ExitSuccess(cb)
             /\ cbHist' = [cbHist EXCEPT !.consec = 0]
             /\ handler' = [handler EXCEPT ![h].pc = "returned", ![h].outcome = "ok"]
  /\ UNCHANGED <<mgr, keyTtl, mark, retry, pub, cancels, processed, clears, connected, sched, subscribed, channel, sentLog, calls, sSnap,
                 sCleared, sPrev, now, extCount, fetched, fetchedOk>>

\* the delivery of the batch is cancelled (the subscriber is stopped) while the
\* chunks run: the task group cancels its tasks, CancelledError passes
\* `except* Exception` and the retry loop's `except Exception`, and
\* CircuitBreaker.__aexit__ sees an exception
HandlerCancel(h) ==
  /\ handler[h].pc = "running"
  /\ handler' = [handler EXCEPT ![h].pc = "cancelled", ![h].outcome = "cancelled",
                                ![h].tasks = [j \in 1..Len(handler[h].tasks) |->
                                   IF handler[h].tasks[j].st \in {"new", "fetching"}
                                   THEN [handler[h].tasks[j] EXCEPT !.st = "cancelled"]
                                   ELSE handler[h].tasks[j]]]
  /\ cb' = ExitFailure(cb, now)
  /\ cbHist' = [consec |-> cbHist.consec + 1, at |-> now]
  /\ cancels' = cancels \cup {"handler"}
  /\ UNCHANGED <<mgr, keyTtl, mark, retry, pub, processed, clears, connected, sched, subscribed, channel, sentLog, calls, sSnap,
                 sCleared, sPrev, now, metrics, extCount, fetched, fetchedOk>>

\* ------------------------------------------------------------ WorkerManager
\* start(): the broker is connected, the signal handlers are installed, the health
\* task is created, app.run() is awaited
ManagerStart ==
  /\ mgr.start = "new"
  /\ mgr' = [mgr EXCEPT !.start = "started", !.health = "running"]
  /\ connected' = TRUE
  /\ UNCHANGED <<keyTtl, mark, retry, pub, cancels, processed, clears, sched, subscribed, channel, sentLog, calls, sSnap,
                 sCleared, sPrev, workVars>>

\* start(): ensure_broker_connected raises, main goes to its finally clause
ManagerStartFail ==
  /\ mgr.start = "new"
  /\ ~connected
  /\ mgr' = [mgr EXCEPT !.start = "failed"]
  /\ UNCHANGED <<keyTtl, mark, retry, pub, cancels, processed, clears, connected, sched, subscribed, channel, sentLog, calls,
                 sSnap, sCleared, sPrev, workVars>>

\* who may call stop(): a signal handler once the handlers are installed, main
\* once start() has returned or raised
MayCall(c) == IF c = "main" THEN mgr.start \in {"started", "failed"} ELSE mgr.start = "started"

\* stop(), lines 288-293: the flag is tested and set without suspension; the
\* first caller goes on to await app.stop(), any other caller returns at once
StopGuardNever(evt) == FALSE
StopGuard(evt) == evt

StopCall(c) ==
  /\ MayCall(c) /\ ~mgr.torn
  /\ mgr.caller[c] = "idle"
  /\ mgr' = IF StopGuard(mgr.evt)
            THEN [mgr EXCEPT !.caller[c] = "returned"]
            ELSE [mgr EXCEPT !.evt = TRUE, !.runs = @ + 1, !.caller[c] = "app_stop"]
  /\ UNCHANGED <<keyTtl, mark, retry, pub, cancels, processed, clears, connected, sched, subscribed, channel, sentLog, calls,
                 sSnap, sCleared, sPrev, workVars>>

\* lines 296-297: `if self._health_task: self._health_task.cancel()`
AfterAppStop(m, c) ==
  IF m.health = "none" THEN [m EXCEPT !.caller[c] = "broker"]
  ELSE [m EXCEPT !.caller[c] = "await_health",
                 !.health = IF @ = "running" THEN "cancelled" ELSE @]

\* lines 292-293: app.stop() finishes within the timeout
AppStopOk(c) ==
  /\ mgr.caller[c] = "app_stop"
  /\ mgr' = [AfterAppStop(mgr, c) EXCEPT !.appStop = "ok"]
  /\ UNCHANGED <<keyTtl, mark, retry, pub, cancels, processed, clears, connected, sched, subscribed, channel, sentLog, calls,
                 sSnap, sCleared, sPrev, workVars>>

\* lines 292-295: wait_for cancels app.stop() and raises TimeoutError, which is caught
AppStopTimeout(c) ==
  /\ mgr.caller[c] = "app_stop"
  /\ mgr' = [AfterAppStop(mgr, c) EXCEPT !.appStop = "timeout"]
  /\ UNCHANGED <<keyTtl, mark, retry, pub, cancels, processed, clears, connected, sched, subscribed, channel, sentLog, calls,
                 sSnap, sCleared, sPrev, workVars>>

\* lines 292-295: app.stop() raises something else than TimeoutError, nothing
\* catches it, stop() raises
AppStopError(c) ==
  /\ mgr.caller[c] = "app_stop"
  /\ mgr' = [mgr EXCEPT !.caller[c] = "raised", !.appStop = "error"]
  /\ UNCHANGED <<keyTtl, mark, retry, pub, cancels, processed, clears, connected, sched, subscribed, channel, sentLog, calls,
                 sSnap, sCleared, sPrev, workVars>>

\* lines 298-299: the health task has ended, stop() goes on to shutdown_broker
AwaitHealth(c) ==
  /\ mgr.caller[c] = "await_health"
  /\ mgr' = [mgr EXCEPT !.caller[c] = "broker"]
  /\ UNCHANGED <<keyTtl, mark, retry, pub, cancels, processed, clears, connected, sched, subscribed, channel, sentLog, calls,
                 sSnap, sCleared, sPrev, workVars>>

\* _health_loop wakes from its sleep with the flag set and leaves the loop
HealthLoopExit ==
  /\ mgr.health = "running" /\ mgr.evt
  /\ mgr' = [mgr EXCEPT !.health = "ended"]
  /\ UNCHANGED <<keyTtl, mark, retry, pub, cancels, processed, clears, connected, sched, subscribed, channel, sentLog, calls,
                 sSnap, sCleared, sPrev, workVars>>

\* shutdown_broker: reliable_publisher.stop() and broker.close() succeed, or
\* the broker is not connected; stop() returns
ShutdownBroker(c) ==
  /\ mgr.caller[c] = "broker"
  /\ connected' = FALSE
  /\ mgr' = [mgr EXCEPT !.caller[c] = "returned"]
  /\ UNCHANGED <<keyTtl, mark, retry, pub, cancels, processed, clears, sched, subscribed, channel, sentLog, calls, sSnap,
                 sCleared, sPrev, workVars>>

\* shutdown_broker: reliable_publisher.stop() or broker.close() raises, the
\* exception is logged (broker.py lines 143-144); stop() returns
ShutdownBrokerError(c) ==
  /\ mgr.caller[c] = "broker"
  /\ connected
  /\ mgr' = [mgr EXCEPT !.caller[c] = "returned"]
  /\ UNCHANGED <<keyTtl, mark, retry, pub, cancels, processed, clears, connected, sched, subscribed, channel, sentLog, calls,
                 sSnap, sCleared, sPrev, workVars>>

\* asyncio.run(main()): main has ended, the remaining tasks are cancelled. A
\* stop() awaiting app.stop() or shutdown_broker ends with CancelledError, one
\* awaiting the health task suppresses it and goes on
TornDown(pc) ==
  IF pc \in {"app_stop", "broker"} THEN "cancelled"
  ELSE IF pc = "await_health" THEN "broker"
  ELSE pc

LoopTeardown ==
  /\ mgr.caller["main"] \in {"returned", "raised"}
  /\ ~mgr.torn
  /\ mgr' = [mgr EXCEPT !.torn = TRUE,
                        !.health = IF @ = "running" THEN "cancelled" ELSE @,
                        !.caller = [c \in Callers |-> TornDown(mgr.caller[c])]]
  /\ UNCHANGED <<keyTtl, mark, retry, pub, cancels, processed, clears, connected, sched, subscribed, channel, sentLog, calls,
                 sSnap, sCleared, sPrev, workVars>>

StopSteps ==
  \/ \E c \in Callers : AppStopOk(c)
  \/ \E c \in Callers : AppStopTimeout(c)
  \/ \E c \in Callers : AppStopError(c)
  \/ \E c \in Callers : AwaitHealth(c)
  \/ \E c \in Callers : ShutdownBroker(c)
  \/ \E c \in Callers : ShutdownBrokerError(c)

NextManager ==
  \/ ManagerStart
  \/ ManagerStartFail
  \/ \E c \in Callers : StopCall(c)
  \/ StopSteps
  \/ HealthLoopExit
  \/ LoopTeardown

\* ------------------------------------------------------------ specifications
\* payloads of other producers: IDs in ascending order
Ascending == {q \in UNION {[1..n -> IDS] : n \in 0..MaxId} : \A i, j \in 1..Len(q) : i < j => q[i] < q[j]}

ExtMsgs ==
  {[op |-> "ext", match_ids |-> q, force_update |-> f, batch_number |-> 1, total_batches |-> 1,
    concurrency |-> c, raw |-> "dict"] : q \in Ascending, f \in BOOLEAN, c \in {0, 1, PAYLOAD_CONCURRENCY}}

\* messages that are no valid MatchBatchPayload: total_batches = 0 fails the
\* validation, raw = "bytes" is none of the accepted types; and valid payloads
\* delivered as a JSON string or as a MatchBatchPayload instance
MalformedMsgs ==
  LET base == {m \in ExtMsgs : Len(m.match_ids) = MaxId /\ m.concurrency = PAYLOAD_CONCURRENCY}
  IN {[m EXCEPT !.total_batches = 0, !.raw = r] : m \in base, r \in {"str", "dict"}}
       \cup {[m EXCEPT !.raw = "bytes"] : m \in base}

OtherTypeMsgs ==
  {[m EXCEPT !.raw = r] : m \in {x \in ExtMsgs : Len(x.match_ids) = MaxId /\ x.concurrency = PAYLOAD_CONCURRENCY},
                          r \in {"str", "payload"}}

FateMaps == UNION {[1..n -> Fates] : n \in 0..MaxId}

NextConsumer ==
  \/ WorkerStart
  \/ \E h \in Handlers, m \in channel, f \in FateMaps : Receive(h, m, f)
  \/ \E h \in Handlers, i \in 1..MaxId : ChunkStart(h, i)
  \/ \E h \in Handlers, i \in 1..MaxId : FetchOk(h, i)
  \/ \E h \in Handlers, i \in 1..MaxId : FetchInvalid(h, i)
  \/ \E h \in Handlers, i \in 1..MaxId : FetchError(h, i)
  \/ \E h \in Handlers : HandlerFinish(h)

\* payloads of one ID, enough of them to trip the breaker and to come back
BreakerMsgs == {m \in ExtMsgs : m.match_ids = <<1>> /\ m.concurrency = PAYLOAD_CONCURRENCY}

NextWorker ==
  \/ \E m \in ExtMsgs \cup OtherTypeMsgs : ExternalPublish(m, MaxExt)
  \/ \E m \in MalformedMsgs : ExternalPublish(m, MaxExt)
  \/ NextConsumer

\* batches of one or of several chunks, enough of them to trip the breaker
AggregateMsgs == {m \in ExtMsgs : Len(m.match_ids) \in {1, MaxId} /\ m.concurrency = PAYLOAD_CONCURRENCY}

NextAggregate ==
  \/ \E m \in AggregateMsgs : ExternalPublish(m, CB_FAIL_THRESHOLD + 1)
  \/ NextConsumer

NextBreaker ==
  \/ \E m \in BreakerMsgs : ExternalPublish(m, MaxExt + CB_FAIL_THRESHOLD)
  \/ Tick
  \/ NextConsumer

\* the whole pipeline: one producer, the channel, the consumer
PipeInputs == {q \in Ascending : Len(q) \in {1, MaxId}}

Next ==
  \/ \E s \in Scheds, m \in PipeInputs, f \in BOOLEAN : ScheduleStart(s, m, f, 1)
  \/ SchedSteps
  \/ NextConsumer

Spec == Init /\ [][Next]_vars

SpecBreaker == Init /\ [][NextBreaker]_vars

SpecSched == Init /\ [][NextSched]_vars

SpecWorker == Init /\ [][NextWorker]_vars

SpecAggregate == Init /\ [][NextAggregate]_vars

SpecPublisher == Init /\ [][NextPublisher]_vars

SpecRetry == Init /\ [][NextRetry]_vars

\* direct calls of mark_processed while time passes
NextStore ==
  \/ \E ids \in SUBSET IDS : MarkStart(ids)
  \/ \E b \in SUBSET IDS : MarkSAdd(b)
  \/ MarkExpire
  \/ Tick

SpecStore == Init /\ [][NextStore]_vars

\* cancellation: one caller that calls publish or schedule once and may be
\* cancelled, and the consumer, whose delivery may be cancelled
NextCancel ==
  \/ \E cfg \in RetryConfigs : (\A s \in Scheds : calls[s] = 0) /\ PublishStart(cfg)
  \/ PublishSendOk
  \/ \E e \in Errors, sl \in 0..MaxDelay : PublishSendFail(e, sl)
  \/ PublishWake
  \/ PublishCancel
  \/ \E s \in Scheds, m \in PipeInputs, f \in BOOLEAN : pub.pc = "idle" /\ ScheduleStart(s, m, f, 1)
  \/ SchedSteps
  \/ \E s \in Scheds : ScheduleCancel(s)
  \/ NextConsumer
  \/ \E h \in Handlers : HandlerCancel(h)

SpecCancel == Init /\ [][NextCancel]_vars

\* forced work on a set that is not empty: a producer first calls schedule for one
\* ID without force and, once the consumer has handled what that call published,
\* for every ID with or without force; it may be cancelled
ForceInputs == {q \in Ascending : Len(q) = MaxId}

Drained == channel = {} /\ \A h \in Handlers : handler[h].pc # "running"

NextForce ==
  \/ \E s \in Scheds : calls[s] = 0 /\ ScheduleStart(s, <<1>>, FALSE, MaxCalls)
  \/ \E s \in Scheds, m \in ForceInputs, f \in BOOLEAN :
       calls[s] > 0 /\ Drained /\ ScheduleStart(s, m, f, MaxCalls)
  \/ SchedSteps
  \/ \E s \in Scheds : ScheduleCancel(s)
  \/ NextConsumer
  \/ \E h \in Handlers : HandlerCancel(h)

SpecForce == Init /\ [][NextForce]_vars

\* two producers that call schedule concurrently, once each and without force
Racers == {"s1", "s2"}

RaceInputs == {q \in Ascending : Len(q) \in 1..2}

InitRace ==
  /\ processed = {}
  /\ clears = 0
  /\ connected = FALSE
  /\ sched = [s \in Racers |-> IdleCall]
  /\ subscribed = FALSE
  /\ channel = {}
  /\ sentLog = [s \in Racers |-> {}]
  /\ calls = [s \in Racers |-> 0]
  /\ sSnap = [s \in Racers |-> {}]
  /\ sCleared = [s \in Racers |-> FALSE]
  /\ sPrev = [s \in Racers |-> NoPrev]
  /\ now = 0
  /\ cb = [failures |-> 0, last_failure |-> 0, state |-> "closed"]
  /\ cbHist = [consec |-> 0, at |-> 0]
  /\ metrics = [batches_processed |-> 0, batches_failed |-> 0, items_processed |-> 0, items_failed |-> 0]
  /\ handler = [h \in Handlers |-> IdleHandler]
  /\ extCount = 0
  /\ fetched = {}
  /\ fetchedOk = {}
  /\ pub = IdlePublish
  /\ cancels = {}
  /\ retry = IdleRetry
  /\ keyTtl = NoTtl
  /\ mark = IdleMark
  /\ mgr = NewManager

NextRace ==
  \/ \E s \in Racers, m \in RaceInputs : ScheduleStart(s, m, FALSE, 1)
  \/ \E s \in Racers, b \in SUBSET IDS : FilterQuery(s, b)
  \/ \E s \in Racers : FilterMark(s)
  \/ \E s \in Racers : \E o \in Orderings(sched[s].new) : Connect(s, o)
  \/ \E s \in Racers, i \in 1..MaxId : PubAcquire(s, i)
  \/ \E s \in Racers, i \in 1..MaxId : PubSendOk(s, i)
  \/ \E s \in Racers, i \in 1..MaxId : PubTaskDone(s, i)
  \/ \E s \in Racers : ScheduleReturn(s)

SpecRace == InitRace /\ [][NextRace]_vars

\* two deliveries of process_match_batch that overlap in one worker process: both
\* enter the one module-level circuit_breaker
Overlap == {"h1", "h2"}

OverlapMsgs == {m \in BreakerMsgs : m.force_update}

InitOverlap ==
  /\ processed = {}
  /\ clears = 0
  /\ connected = FALSE
  /\ sched = [s \in Scheds |-> IdleCall]
  /\ subscribed = FALSE
  /\ channel = {}
  /\ sentLog = [s \in Scheds |-> {}]
  /\ calls = [s \in Scheds |-> 0]
  /\ sSnap = [s \in Scheds |-> {}]
  /\ sCleared = [s \in Scheds |-> FALSE]
  /\ sPrev = [s \in Scheds |-> NoPrev]
  /\ now = 0
  /\ cb = [failures |-> 0, last_failure |-> 0, state |-> "closed"]
  /\ cbHist = [consec |-> 0, at |-> 0]
  /\ metrics = [batches_processed |-> 0, batches_failed |-> 0, items_processed |-> 0, items_failed |-> 0]
  /\ handler = [h \in Overlap |-> IdleHandler]
  /\ extCount = 0
  /\ fetched = {}
  /\ fetchedOk = {}
  /\ pub = IdlePublish
  /\ cancels = {}
  /\ retry = IdleRetry
  /\ keyTtl = NoTtl
  /\ mark = IdleMark
  /\ mgr = NewManager

NextOverlap ==
  \/ WorkerStart
  \/ \E m \in OverlapMsgs : ExternalPublish(m, CB_FAIL_THRESHOLD + 1)
  \/ Tick
  \/ \E h \in Overlap, m \in channel, f \in FateMaps : Receive(h, m, f)
  \/ \E h \in Overlap, i \in 1..MaxId : ChunkStart(h, i)
  \/ \E h \in Overlap, i \in 1..MaxId : FetchOk(h, i)
  \/ \E h \in Overlap, i \in 1..MaxId : FetchInvalid(h, i)
  \/ \E h \in Overlap, i \in 1..MaxId : FetchError(h, i)
  \/ \E h \in Overlap : HandlerFinish(h)

SpecOverlap == InitOverlap /\ [][NextOverlap]_vars

\* one forced schedule call with one batch more than the publish semaphore lets
\* through at a time, which the caller may cancel
FanoutInput == [i \in 1..(MAX_PUBLISH_CONCURRENCY * BATCH_SIZE + 1) |-> i]

NextFanout ==
  \/ \E s \in Scheds : ScheduleStart(s, FanoutInput, TRUE, 1)
  \/ \E s \in Scheds : Connect(s, FanoutInput)
  \/ \E s \in Scheds, i \in 1..(MAX_PUBLISH_CONCURRENCY + 1) : PubAcquire(s, i)
  \/ \E s \in Scheds, i \in 1..(MAX_PUBLISH_CONCURRENCY + 1) : PubSendOk(s, i)
  \/ \E s \in Scheds, i \in 1..(MAX_PUBLISH_CONCURRENCY + 1) : PubSendFail(s, i)
  \/ \E s \in Scheds, i \in 1..(MAX_PUBLISH_CONCURRENCY + 1) : PubTaskDone(s, i)
  \/ \E s \in Scheds : ScheduleReturn(s)
  \/ \E s \in Scheds : ScheduleCancel(s)

SpecFanout == Init /\ [][NextFanout]_vars

\* the cancellable fan-out, where the event loop keeps running the shielded
\* publishes: each broker.publish returns or raises, each backoff sleep ends
SpecShield ==
  /\ Init /\ [][NextFanout]_vars
  /\ WF_vars(\E s \in Scheds, i \in 1..(MAX_PUBLISH_CONCURRENCY + 1) : PubSendOk(s, i) \/ PubSendFail(s, i))

\* the life of one worker process; the event loop keeps running the stop()
\* coroutines, and every awaited call of theirs returns or raises
SpecManager == Init /\ [][NextManager]_vars /\ WF_vars(StopSteps)

\* ------------------------------------------------------------------ claims
Returned(s) == sched[s].pc = "done"

CeilDiv(n, d) == (n + d - 1) \div d

\* the batches whose publish was invoked (the task went through reliable_publisher.publish)
Handed(c) == {i \in 1..Len(c.tasks) : c.tasks[i].st \in {"sent", "exhausted", "ok", "failed"}}

Occurrences(c, id) ==
  Cardinality({p \in Handed(c) \X (1..MaxId) : p[2] <= Len(c.batches[p[1]]) /\ c.batches[p[1]][p[2]] = id})

\* C1: an ID that is in the dedup set when a non-forced schedule call starts is in
\* no batch that call publishes, as long as the set is not cleared meanwhile.
C1_NoRedispatch ==
  \A s \in Scheds :
    (~sched[s].force /\ ~sCleared[s]) =>
      \A m \in sentLog[s] : Range(m.match_ids) \cap sSnap[s] = {}

C1_Witness ==
  \E s \in Scheds :
    /\ ~sched[s].force /\ ~sCleared[s]
    /\ sSnap[s] \cap sched[s].unique # {}
    /\ sentLog[s] # {}

\* C2: when the consumer has finished handling a batch that a non-forced schedule
\* call published and the breaker admitted, every ID of the batch has been passed
\* to fetch_and_cache.
C2_DataFlow ==
  \A h \in Handlers :
    (/\ handler[h].pc \in {"returned", "raised"}
     /\ handler[h].msg.op \in Scheds
     /\ ~handler[h].msg.force_update
     /\ handler[h].outcome # "rejected")
    => Range(handler[h].msg.match_ids) \subseteq fetched

\* C3: a non-forced call that follows a returned non-forced call with the same ID
\* set, with no clear in between, publishes nothing and returns ids_to_publish = 0,
\* already_processed = number of unique IDs, ids_published = 0, batches_created = 0.
SecondOfTwo(s) ==
  /\ ~sched[s].force
  /\ sPrev[s].returned /\ sPrev[s].unique = sched[s].unique
  /\ ~sPrev[s].cleared /\ ~sCleared[s]

C3_DedupIdempotence ==
  \A s \in Scheds :
    SecondOfTwo(s) =>
      /\ sentLog[s] = {} /\ sched[s].tasks = <<>>
      /\ Returned(s) =>
           /\ sched[s].result.ids_to_publish = 0
           /\ sched[s].result.already_processed = Cardinality(sched[s].unique)
           /\ sched[s].result.ids_published = 0
           /\ sched[s].result.batches_created = 0

C3_Witness ==
  \E s \in Scheds :
    /\ SecondOfTwo(s) /\ Returned(s)
    /\ Cardinality(sched[s].unique) = MaxId
    /\ sched[s].result.already_processed = MaxId

Sliced(c) ==
  /\ Len(c.batches) = CeilDiv(Cardinality(c.new), BATCH_SIZE)
  /\ \A i \in 1..Len(c.batches) : Len(c.batches[i]) \in 1..BATCH_SIZE
  /\ UNION {Range(c.batches[i]) : i \in 1..Len(c.batches)} = c.new
  /\ SumLen(c.batches) = Cardinality(c.new)

Attempted(h) == handler[h].pc # "idle" /\ handler[h].msg.match_ids # <<>>

C6_TripAndRecover ==
  \A h \in Handlers :
    (Attempted(h) /\ handler[h].gate.consec >= CB_FAIL_THRESHOLD) =>
      IF handler[h].gate.elapsed < CB_RECOVERY_S
      THEN handler[h].outcome = "rejected" /\ handler[h].tasks = <<>>
      ELSE handler[h].outcome # "rejected" /\ handler[h].tasks # <<>>

\* the threshold failures, then a rejected payload, then an admitted one
C6_Witness ==
  \E h \in Handlers :
    /\ handler[h].pc = "running"
    /\ handler[h].gate.consec >= CB_FAIL_THRESHOLD
    /\ handler[h].gate.elapsed >= CB_RECOVERY_S
    /\ handler[h].msg.batch_number = CB_FAIL_THRESHOLD + 2
    /\ channel = {}
    /\ metrics.batches_failed = CB_FAIL_THRESHOLD /\ metrics.batches_processed = 0

\* C7: when the handling of a batch of k >= 2 chunks ends, exactly one of which has
\* a domain action that always raises the validation error while the others'
\* always succeed, 1 chunk is reported failed and the k - 1 others have completed.
\* Stated for forced batches, whose chunks reach the domain action without the
\* dedup re-check.
OneInvalid(tasks) ==
  /\ Len(tasks) >= 2
  /\ Cardinality({j \in 1..Len(tasks) : tasks[j].fate = "invalid"}) = 1
  /\ \A j \in 1..Len(tasks) : tasks[j].fate \in {"invalid", "ok"}

C7_PartialFailure ==
  \A h \in Handlers :
    (/\ handler[h].pc \in {"returned", "raised"}
     /\ handler[h].msg.force_update
     /\ OneInvalid(handler[h].tasks)) =>
      /\ NumFailed(handler[h].tasks) = 1
      /\ \A j \in 1..Len(handler[h].tasks) :
           handler[h].tasks[j].fate = "ok" => handler[h].tasks[j].st = "ok"

\* C8: every ID of the dedup set belongs to a fetch_and_cache call that completed.
C8_MarkedOnlyAfterSuccess == processed \subseteq fetchedOk

\* C9: every returned PublishResult has non-negative counts and
\* ids_published <= ids_to_publish <= initial_ids.
C9_ResultBounds ==
  \A s \in Scheds :
    Returned(s) =>
      LET r == sched[s].result
      IN /\ r.initial_ids >= 0 /\ r.already_processed >= 0 /\ r.ids_to_publish >= 0
         /\ r.ids_published >= 0 /\ r.batches_created >= 0 /\ r.batches_failed >= 0
         /\ r.ids_published <= r.ids_to_publish
         /\ r.ids_to_publish <= r.initial_ids

C9_Witness ==
  \E s \in Scheds :
    /\ Returned(s) /\ sched[s].result.kind = "normal"
    /\ sched[s].result.ids_published = 1
    /\ sched[s].result.ids_to_publish = 1
    /\ sched[s].result.initial_ids = MaxLen

\* C10: in the result of a call that ran to completion, batches_failed is the number
\* of batches the broker never accepted and ids_published the total size of the
\* others, so ids_published plus the sizes of the failed batches is ids_to_publish.
Lost(s) == {i \in 1..Len(sched[s].batches) : MatchBatchPayload(s, sched[s], i) \notin sentLog[s]}

RECURSIVE SizeOf(_, _)
SizeOf(c, I) ==
  IF I = {} THEN 0
  ELSE LET i == CHOOSE x \in I : TRUE IN Len(c.batches[i]) + SizeOf(c, I \ {i})

C10_PublishAggregation ==
  \A s \in Scheds :
    (Returned(s) /\ sched[s].result.kind = "normal") =>
      /\ sched[s].result.batches_failed = Cardinality(Lost(s))
      /\ sched[s].result.ids_published = SizeOf(sched[s], (1..Len(sched[s].batches)) \ Lost(s))
      /\ sched[s].result.ids_published + SizeOf(sched[s], Lost(s)) = sched[s].result.ids_to_publish

C10_Witness ==
  \E s \in Scheds :
    /\ Returned(s) /\ sched[s].result.kind = "normal"
    /\ sched[s].result.batches_failed = 1
    /\ sched[s].result.ids_published = BATCH_SIZE
    /\ sched[s].result.ids_to_publish = BATCH_SIZE + 1

\* C11: no schedule call ends with an exception other than a cancellation: a store
\* failure, a connection failure and a publish failure all end in a PublishResult.
C11_NeverRaises ==
  \A s \in Scheds : sched[s].pc # "raised"

\* C12: publish issues at most max_retries + 1 sends, none after a send that
\* succeeded; it returns exactly when a send succeeded and otherwise raises after
\* max_retries + 1 failed sends, with the last send error as the cause.
C12_PublishRetries ==
  /\ pub.sends <= pub.cfg.max_retries + 1
  /\ pub.sends = Len(pub.errLog) + pub.okSends + (IF pub.pc = "sending" THEN 1 ELSE 0)
  /\ pub.okSends <= 1
  /\ (pub.pc = "returned") <=> (pub.okSends = 1)
  /\ pub.pc = "raised" =>
       /\ pub.sends = pub.cfg.max_retries + 1
       /\ Len(pub.errLog) = pub.sends
       /\ pub.cause = pub.errLog[Len(pub.errLog)]
  /\ pub.pc \in {"sending", "sleeping"} => Len(pub.errLog) <= pub.cfg.max_retries

C12_Witness ==
  /\ pub.pc = "raised"
  /\ pub.cfg.max_retries = PUB_MAX_RETRIES
  /\ pub.sends = PUB_MAX_RETRIES + 1
  /\ pub.errLog[1] # pub.errLog[Len(pub.errLog)]
  /\ pub.cause = pub.errLog[Len(pub.errLog)]

\* C13: at every backoff sleep, before retry n + 1 (n counted from 0), the
\* pre-jitter delay is min(initial_delay * backoff_factor^n, max_delay), so at most
\* max_delay, and the time slept lies between 0 and that delay.

C13_BackoffBounds ==
  pub.pc = "sleeping" =>
    /\ pub.delay = Min(pub.cfg.initial_delay_s * Pow(pub.cfg.backoff_factor, pub.attempt), pub.cfg.max_backoff_s)
    /\ pub.delay <= pub.cfg.max_backoff_s
    /\ 0 <= pub.sleep /\ pub.sleep <= pub.delay

\* C14: once a cancellation has been delivered to publish, publish ends cancelled and
\* issues no further send; once delivered to a schedule call, the call ends
\* cancelled and returns no PublishResult; once delivered to the handling of a
\* batch, its unfinished chunks end cancelled and none of them is attempted again.
C14Step ==
  /\ "publish" \in cancels' =>
       /\ pub'.pc = "cancelled"
       /\ pub'.sends = pub.sends /\ pub'.okSends = pub.okSends
  /\ "schedule" \in cancels' =>
       \A s \in Scheds : sched'[s].pc = "cancelled" /\ sched'[s].result = NoResult
  /\ "handler" \in cancels' =>
       \A h \in Handlers :
         /\ handler'[h].pc = "cancelled"
         /\ \A j \in 1..Len(handler'[h].tasks) :
              /\ handler'[h].tasks[j].st \in {"ok", "failed", "cancelled"}
              /\ handler'[h].tasks[j].att = handler[h].tasks[j].att
         /\ fetched' = fetched

C14_CancelPropagates == [][C14Step]_vars

C14_Witness ==
  /\ cancels = {"schedule", "handler"}
  /\ \E s \in Scheds : \E i \in 1..Len(sched[s].tasks) : sched[s].tasks[i].st = "cancelled"
  /\ \E h \in Handlers : \E j \in 1..Len(handler[h].tasks) :
       handler[h].tasks[j].st = "cancelled" /\ handler[h].tasks[j].att = MAX_RETRIES

\* C15: when filter_processed has returned to a schedule call that no clear
\* interfered with, its value is the input set minus the set stored at the start
\* and the stored set is the union of the two.
Filtered(s) == ~sched[s].force /\ ~sCleared[s] /\ sched[s].pc \in {"connect", "publishing", "done"}

C15_FilterProcessed ==
  \A s \in Scheds :
    Filtered(s) =>
      /\ sched[s].new = sched[s].unique \ sSnap[s]
      /\ processed = sSnap[s] \cup sched[s].unique

C15_Witness ==
  \E s \in Scheds :
    /\ Filtered(s) /\ sched[s].pc = "connect"
    /\ Cardinality(sched[s].unique) > DEDUP_BATCH_SIZE
    /\ sSnap[s] \cap sched[s].unique # {}
    /\ Cardinality(sched[s].new) = 2

\* C16: two concurrent non-forced schedule calls can both dispatch the same ID
\* (the witness); this happens only to an ID that was in the dedup set at the start
\* of neither call, that is, when neither filter had marked it before the other
\* call began.
Dispatched(s) == UNION {Range(m.match_ids) : m \in sentLog[s]}

C16_BestEffortRace ==
  \A id \in Dispatched("s1") \cap Dispatched("s2") : id \notin sSnap["s1"] \cup sSnap["s2"]

C16_Witness ==
  /\ Dispatched("s1") \cap Dispatched("s2") # {}
  /\ \A s \in Racers : sched[s].pc = "done" /\ sched[s].result.ids_published >= 1

\* C17: the handling of a message that is no valid payload (a wrong type, or one
\* that fails the validation) returns normally in the step that receives it, creates
\* no chunk task and touches neither the breaker, the metrics, the dedup set nor
\* the domain action.
Malformed(m) ==
  \/ m.raw \notin {"str", "dict", "payload"}
  \/ m.raw \in {"str", "dict"} /\ (m.batch_number < 1 \/ m.total_batches < 1)

C17Step ==
  \A h \in Handlers :
    (handler'[h] # handler[h] /\ Malformed(handler'[h].msg)) =>
      /\ handler'[h].pc = "returned"
      /\ handler'[h].tasks = <<>>
      /\ UNCHANGED <<keyTtl, mark, retry, cb, cbHist, metrics, processed, fetched, fetchedOk>>

C17_MalformedDropped == [][C17Step]_vars

C17_Witness ==
  \E h \in Handlers :
    /\ Malformed(handler[h].msg) /\ handler[h].msg.raw = "dict"
    /\ handler[h].pc = "returned"
    /\ extCount = MaxExt /\ channel = {}
    /\ metrics.batches_failed = 1 /\ cb.failures = 1

\* C18: the handling of a batch ends by raising exactly when the breaker rejected
\* the batch or a chunk of it failed; it returns normally when every chunk succeeded.
ChunkFailed(h) == \E j \in 1..Len(handler[h].tasks) : handler[h].tasks[j].st = "failed"

C18_FailureReraised ==
  \A h \in Handlers :
    /\ handler[h].pc = "raised" => (handler[h].outcome = "rejected" \/ ChunkFailed(h))
    /\ handler[h].pc = "returned" => (handler[h].outcome # "rejected" /\ ~ChunkFailed(h))
    /\ (handler[h].pc \in {"returned", "raised"} /\ handler[h].tasks # <<>>
          /\ \A j \in 1..Len(handler[h].tasks) : handler[h].tasks[j].st = "ok")
         => handler[h].pc = "returned"

C18_Witness ==
  \E h \in Handlers :
    /\ handler[h].pc = "raised" /\ handler[h].outcome = "rejected"
    /\ metrics.batches_failed = CB_FAIL_THRESHOLD
    /\ metrics.items_processed = 0

\* C20: when a non-forced schedule call has returned, no ID of a batch it counts in
\* batches_failed is in the dedup set (unless a clear or another call intervened,
\* the set then still holds what this call left in it).
C20_NoSilentLoss ==
  \A s \in Scheds :
    (Returned(s) /\ ~sched[s].force /\ ~sCleared[s] /\ sched[s].result.kind = "normal") =>
      \A i \in 1..Len(sched[s].tasks) :
        sched[s].tasks[i].st = "failed" => Range(sched[s].batches[i]) \cap processed = {}

\* ------------------------------------------------------------ C21
\* consecutive failures after guarding the chunks one by one, in their order,
\* starting from n
RECURSIVE PerChunk(_, _)
PerChunk(n, tasks) ==
  IF tasks = <<>> THEN n
  ELSE PerChunk(IF Head(tasks).st = "ok" THEN 0 ELSE n + 1, Tail(tasks))

\* a forced batch that ran its chunks one after the other, each to its end
RanInOrder(h) ==
  /\ handler[h].pc \in {"returned", "raised"}
  /\ handler[h].outcome \in {"ok", "failed"}
  /\ handler[h].msg.force_update
  /\ handler[h].msg.concurrency = 1
  /\ handler[h].tasks # <<>>
  /\ \A j \in 1..Len(handler[h].tasks) : handler[h].tasks[j].st \in {"ok", "failed"}

\* C21: each chunk is guarded by the shared breaker on its own: every failing
\* chunk adds one to consecutive_failures and every succeeding chunk resets it,
\* so after a batch the counter is the one of a chunk-by-chunk count, and the
\* breaker is open exactly when that count reached the threshold
C21_ChunkGuarded ==
  \A h \in Handlers :
    RanInOrder(h) =>
      /\ cb.failures = PerChunk(handler[h].gate.consec, handler[h].tasks)
      /\ (cb.state = "open") <=> (PerChunk(handler[h].gate.consec, handler[h].tasks) >= CB_FAIL_THRESHOLD)

\* ------------------------------------------------------------ C22
C22Step ==
  (cb.state = "open" /\ (now - cb.last_failure) < CB_RECOVERY_S) => cb'.state = "open"

\* C22: under every interleaving of guarded operations, while the breaker is open
\* and the recovery window since last_failure has not elapsed, its state stays
\* open: it is closed only by an operation admitted after the window
C22_RecoveryOnlyAfterWindow == [][C22Step]_vars

\* ------------------------------------------------------------ C23
\* handler h leaves the breaker in this step, normally or with an exception
NormalExit(h) == handler[h].pc = "running" /\ handler'[h].pc = "returned"
ExceptionalExit(h) == handler[h].pc = "running" /\ handler'[h].pc \in {"raised", "cancelled"}

C23Step ==
  /\ (cb.state = "open") <=> (cb.failures >= CB_FAIL_THRESHOLD)
  /\ (cb'.state = "open") <=> (cb'.failures >= CB_FAIL_THRESHOLD)
  /\ \A h \in Handlers :
       /\ NormalExit(h) => cb'.failures = 0 /\ cb'.state = "closed"
       /\ ExceptionalExit(h) => cb'.failures = cb.failures + 1 /\ cb'.last_failure = now

\* C23: the breaker is open exactly when consecutive_failures has reached the
\* threshold; a normal exit of a guarded operation sets consecutive_failures to 0
\* and the state to closed, an exceptional exit adds exactly 1 to
\* consecutive_failures and sets last_failure to the current time
C23_BreakerInvariant == [][C23Step]_vars

\* the breaker, open, has let an operation in after the window, and it failed
C23_Witness ==
  /\ cb.state = "open"
  /\ cb.failures = CB_FAIL_THRESHOLD + 1
  /\ cb.last_failure >= CB_RECOVERY_S
  /\ \E h \in Handlers : handler[h].pc = "raised" /\ handler[h].outcome = "failed"

\* ------------------------------------------------------------ C24
\* the chunks of the batch of handler h that are inside _process_chunk
Executing(h) == {j \in 1..Len(handler[h].tasks) : handler[h].tasks[j].st = "fetching"}

\* C24: at every moment the number of chunks of one batch that are executing
\* inside _process_chunk is at most the payload's concurrency, and at most 1 when
\* the payload's concurrency is 0 or less
C24_BoundedChunks ==
  \A h \in Handlers :
    Cardinality(Executing(h)) <=
      (IF handler[h].msg.concurrency <= 0 THEN 1 ELSE handler[h].msg.concurrency)

\* a payload with concurrency 0: one chunk executes, the next one waits
C24_Witness ==
  \E h \in Handlers :
    /\ handler[h].pc = "running"
    /\ handler[h].msg.concurrency <= 0
    /\ Len(handler[h].tasks) = 2
    /\ handler[h].tasks[1].st = "fetching"
    /\ handler[h].tasks[2].st = "new"

\* ------------------------------------------------------------ C25
\* the batches of call s whose reliable_publisher.publish is running
Publishing(s) == {i \in 1..Len(sched[s].tasks) : sched[s].tasks[i].st = "sending"}

\* C25: at every moment of one schedule call, also after the call has been
\* cancelled, at most MAX_PUBLISH_CONCURRENCY batch publishes are in flight
C25_BoundedFanout ==
  \A s \in Scheds : Cardinality(Publishing(s)) <= MAX_PUBLISH_CONCURRENCY

\* the call was cancelled with the semaphore exhausted: the shielded publishes
\* go on, the batch that waited for the semaphore is cancelled
C25_Witness ==
  \E s \in Scheds :
    /\ sched[s].pc = "cancelled"
    /\ Len(sched[s].tasks) > MAX_PUBLISH_CONCURRENCY
    /\ Cardinality(Publishing(s)) = MAX_PUBLISH_CONCURRENCY
    /\ \E i \in 1..Len(sched[s].tasks) : sched[s].tasks[i].st = "cancelled"

\* ------------------------------------------------------------ C26
\* C26: a chunk whose domain action raises the validation error has its domain
\* action invoked once, sleeps for no backoff and never completes: once the
\* action has raised, the chunk has failed, which makes the batch raise
C26_ValidationNotRetried ==
  \A h \in Handlers : \A j \in 1..Len(handler[h].tasks) :
    handler[h].tasks[j].fate = "invalid" =>
      /\ handler[h].tasks[j].att <= 1
      /\ handler[h].tasks[j].slept = 0
      /\ handler[h].tasks[j].st # "ok"
      /\ (handler[h].pc \in {"returned", "raised"} /\ handler[h].tasks[j].att = 1) =>
           (handler[h].tasks[j].st \in {"failed", "cancelled"} /\ handler[h].pc = "raised")

\* the validation error of a chunk has made the batch fail
C26_Witness ==
  \E h \in Handlers : \E j \in 1..Len(handler[h].tasks) :
    /\ handler[h].pc = "raised"
    /\ handler[h].tasks[j].fate = "invalid"
    /\ handler[h].tasks[j].st = "failed"
    /\ handler[h].tasks[j].att = 1

\* ------------------------------------------------------------ C27
\* a chunk of the batch of handler h whose domain action was invoked and raised a
\* retryable error at every attempt
Exhausted(h, j) ==
  /\ handler[h].tasks[j].fate = "flaky"
  /\ handler[h].tasks[j].st = "failed"
  /\ handler[h].tasks[j].att >= 1

\* C27: a chunk whose domain action fails with a retryable error at every attempt
\* is retried MAX_RETRIES times after the initial attempt, with a sleep of
\* RETRY_DELAY_S * 2^(attempt-1) before each retry, before its error propagates
C27_RetryBudget ==
  \A h \in Handlers : \A j \in 1..Len(handler[h].tasks) :
    Exhausted(h, j) =>
      /\ handler[h].tasks[j].att = 1 + MAX_RETRIES
      /\ handler[h].tasks[j].slept = RETRY_DELAY_S * (Pow(2, MAX_RETRIES) - 1)

\* ------------------------------------------------------------ C28
\* C28: the checker of a non-forced chunk has an initialized client, so no chunk
\* fails at the dedup re-check, before the first attempt of its domain action,
\* and a non-forced chunk whose IDs are new has reached the domain action when
\* the handling of its batch has ended
C28_CheckerInitialized ==
  \A h \in Handlers : \A j \in 1..Len(handler[h].tasks) :
    /\ ~(handler[h].tasks[j].st = "failed" /\ handler[h].tasks[j].att = 0)
    /\ (/\ handler[h].pc \in {"returned", "raised"}
        /\ ~handler[h].msg.force_update
        /\ handler[h].tasks[j].st \in {"ok", "failed"}
        /\ ChunkIds(h, j) \cap processed = {})
         => ChunkIds(h, j) \subseteq fetched

\* ------------------------------------------------------------ C30
\* C30: when filter_processed raises, the dedup set is what it was when the call
\* started (no clear having happened in between): no ID of the call has been
\* recorded
C30_FilterErrorLeavesSet ==
  \A s \in Scheds :
    (sched[s].pc = "raised" /\ ~sCleared[s]) => processed = sSnap[s]

\* ------------------------------------------------------------ C31
\* the attempts before the last one all raised a RedisError
EarlierFailed(r) == \A i \in 1..(Len(r.tries) - 1) : r.tries[i].kind = "redis"

\* C31: a store call is attempted at most 3 times, each attempt after a RedisError
\* and a sleep of RETRY_DELAY * attempt; the call returns the value of the first
\* attempt that succeeds; it raises the store error itself after the third
\* failure, and any other error at once
C31_StoreRetry ==
  /\ Len(retry.tries) <= 3
  /\ EarlierFailed(retry)
  /\ \A i \in 1..Len(retry.sleeps) : retry.sleeps[i] = STORE_RETRY_DELAY * i
  /\ retry.pc = "calling" => Len(retry.sleeps) = Len(retry.tries)
  /\ retry.pc \in {"returned", "raised"} =>
       /\ Len(retry.sleeps) = Len(retry.tries) - 1
       /\ retry.outcome = retry.tries[Len(retry.tries)].val
  /\ retry.pc = "returned" => retry.tries[Len(retry.tries)].kind = "ok"
  /\ retry.pc = "raised" =>
       \/ retry.tries[Len(retry.tries)].kind = "other"
       \/ retry.tries[Len(retry.tries)].kind = "redis" /\ Len(retry.tries) = 3

\* the third attempt raised a store error after sleeps of 1 and 2 delays
C31_Witness ==
  /\ retry.pc = "raised"
  /\ Len(retry.tries) = 3
  /\ retry.tries[3].kind = "redis"
  /\ retry.sleeps = <<STORE_RETRY_DELAY, 2 * STORE_RETRY_DELAY>>

\* ------------------------------------------------------------ C32
\* the mark_processed call returns in this step
MarkReturns == mark.pc = "expire" /\ mark'.pc = "returned"

C32Step ==
  MarkReturns =>
    /\ mark.ids \subseteq Live(processed', keyTtl', now')
    /\ keyTtl' = [armed |-> TRUE, at |-> now + DEFAULT_KEY_TTL_SEC]

\* C32: when a mark_processed call returns, the IDs it marked are in the set
\* (marking IDs that are in it already changes nothing) and the key expires a
\* full TTL from now, so every recorded ID stays until TTL after the last write
C32_MarkRefreshesTtl == [][C32Step]_vars

\* a step of a forced schedule call, or of the handling of a forced batch
ForcedStep ==
  \/ \E s \in Scheds : sched'[s] # sched[s] /\ sched'[s].force
  \/ \E h \in Handlers : handler'[h] # handler[h] /\ handler'[h].msg.force_update

C33Step ==
  ForcedStep =>
    /\ processed' = processed /\ keyTtl' = keyTtl
    /\ \A s \in Scheds :
         (sched'[s] # sched[s] /\ sched[s].pc \in {"idle", "done", "raised"}) =>
           sched'[s].new = sched'[s].unique

\* C33: no step of a forced schedule call and no step of the handling of a forced
\* batch changes the dedup set or its expiry, whatever the outcome, and the IDs a
\* forced call publishes are its unique input IDs whatever the set holds.
C33_ForcedLeavesSet == [][C33Step]_vars

C33_Witness ==
  /\ \E s \in Scheds :
       /\ sched[s].force /\ sched[s].pc \in {"done", "cancelled"}
       /\ sSnap[s] \cap sched[s].unique # {}
  /\ \E h \in Handlers :
       /\ handler[h].msg.force_update
       /\ handler[h].pc \in {"returned", "raised", "cancelled"}
       /\ handler[h].outcome \in {"ok", "failed", "cancelled"}
       /\ Range(handler[h].msg.match_ids) \cap processed # {}
       /\ fetched \cap processed # {}

\* ------------------------------------------------------------ C34
Cancelled(s) == sched[s].pc = "cancelled"

CancelDelivered(s) == sched[s].pc = "publishing" /\ sched'[s].pc = "cancelled"

C34Step ==
  \A s \in Scheds : \A i \in 1..Len(sched[s].tasks) :
    /\ CancelDelivered(s) =>
         /\ sched[s].tasks[i].st = "sending" => sched'[s].tasks[i] = sched[s].tasks[i]
         /\ sched[s].tasks[i].st = "new" => sched'[s].tasks[i].st = "cancelled"
         /\ sched'[s].result = NoResult
    /\ Cancelled(s) =>
         /\ Cancelled(s)'
         /\ sched[s].tasks[i].st = "cancelled" =>
              /\ sched'[s].tasks[i] = sched[s].tasks[i]
              /\ MatchBatchPayload(s, sched[s], i) \notin sentLog'[s]
         /\ sched[s].tasks[i].st = "sending" =>
              /\ sched'[s].tasks[i].st \in {"sending", "sent", "exhausted"}
              /\ sched'[s].tasks[i].st = "sent" => MatchBatchPayload(s, sched[s], i) \in sentLog'[s]
              /\ sched'[s].tasks[i].st = "exhausted" => sched[s].tasks[i].att >= PUB_MAX_RETRIES

PublishesSettled(s) == Cancelled(s) /\ Publishing(s) = {}

\* C34: when a schedule call is cancelled during the fan-out, the call raises the
\* cancellation; every publish that had started its shielded send goes on and ends
\* sent, or failed after its last retry; every publish task that had not started
\* is cancelled and never sends.
C34_ShieldedPublishes ==
  /\ [][C34Step]_vars
  /\ \A s \in Scheds : Cancelled(s) ~> PublishesSettled(s)

C34_Witness ==
  \E s \in Scheds :
    /\ PublishesSettled(s)
    /\ \E i \in 1..Len(sched[s].tasks) : sched[s].tasks[i].st = "cancelled"
    /\ \E i \in 1..Len(sched[s].tasks) : sched[s].tasks[i].st = "sent" /\ sched[s].tasks[i].att > 0
    /\ \E i \in 1..Len(sched[s].tasks) : sched[s].tasks[i].st = "exhausted"

\* ------------------------------------------------------------ C35
\* the shutdown sequence has completed: the health loop is over, the connection closed
ShutdownDone == mgr.health \in {"cancelled", "ended"} /\ ~connected

StopInvoked == mgr.start = "started" /\ mgr.evt

\* C35: once stop() has been invoked on a started manager, the health loop is
\* eventually over and the channel connection closed, whether app.stop() finishes,
\* times out or fails.
C35_ShutdownCompletes == StopInvoked ~> ShutdownDone

\* ------------------------------------------------------------ C36
\* C36: when stop() has returned to a caller of a started manager, the health loop
\* is over and the channel connection closed, and the shutdown sequence has been
\* started at most once.
C36_StopReturnsAfterShutdown ==
  /\ mgr.runs <= 1
  /\ \A c \in Callers :
       (mgr.start = "started" /\ mgr.caller[c] = "returned") => ShutdownDone

\* ------------------------------------------------------------ C37
\* this step ends the handling of a decoded batch with at least one ID
HandlingEnds(h) ==
  /\ handler'[h] # handler[h]
  /\ handler'[h].pc \in {"returned", "raised"}
  /\ handler'[h].outcome \in {"ok", "failed", "rejected"}

C37Step ==
  \A h \in Handlers :
    HandlingEnds(h) =>
      /\ metrics'.batches_processed + metrics'.batches_failed =
           metrics.batches_processed + metrics.batches_failed + 1
      /\ metrics'.batches_processed >= metrics.batches_processed
      /\ metrics'.batches_failed >= metrics.batches_failed
      /\ handler'[h].outcome = "rejected" => metrics'.batches_failed = metrics.batches_failed + 1

\* C37: the step that ends the handling of a decoded batch with at least one ID
\* (all chunks succeeded, some chunk failed, or the open breaker rejected it) adds
\* one to exactly one of batches_processed and batches_failed, and a rejected batch
\* adds it to batches_failed.
C37_BatchCounted == [][C37Step]_vars

\* ------------------------------------------------------------ C38
\* this step is an attempt that the open breaker rejects
Rejection(h) == handler'[h] # handler[h] /\ handler'[h].outcome = "rejected"

C38Step == \A h \in Handlers : Rejection(h) => cb' = cb

\* C38: an attempt rejected by the open breaker leaves failures, last_failure and
\* state as they were, so a rejection does not extend the recovery window.
C38_RejectionLeavesBreaker == [][C38Step]_vars

\* a rejection some time after the failure that opened the breaker
C38_Witness ==
  \E h \in Handlers :
    /\ handler[h].outcome = "rejected"
    /\ cb.state = "open" /\ cb.last_failure < now /\ now - cb.last_failure < CB_RECOVERY_S
    /\ cb.failures = CB_FAIL_THRESHOLD

\* ------------------------------------------------------------ C39
\* handler h was admitted by the open breaker after the recovery window and
\* leaves it with an exception in this step
FailsAfterWindow(h) ==
  /\ handler[h].pc = "running" /\ handler'[h].pc = "raised"
  /\ handler[h].gate.consec >= CB_FAIL_THRESHOLD
  /\ handler[h].gate.elapsed >= CB_RECOVERY_S

C39Step ==
  \A h \in Handlers :
    FailsAfterWindow(h) =>
      /\ cb'.state = "open" /\ cb'.last_failure = now
      /\ \A t \in now..(now + CB_RECOVERY_S - 1) : IsOpen(cb', t)

\* an attempt made after one failure more than the threshold, that is after the
\* failure of an operation admitted after the window, and within recovery_s of it
AfterRelapse(h) ==
  /\ Attempted(h)
  /\ handler[h].gate.consec = CB_FAIL_THRESHOLD + 1
  /\ handler[h].gate.elapsed < CB_RECOVERY_S

\* C39: when an operation admitted after the recovery window fails, the breaker is
\* open from the time of that failure for recovery_s; every attempt made within
\* recovery_s of that one failure is rejected and creates no chunk task.
C39_RelapseReopens ==
  /\ [][C39Step]_vars
  /\ [](\A h \in Handlers : AfterRelapse(h) => handler[h].outcome = "rejected" /\ handler[h].tasks = <<>>)

C39_Witness ==
  \E h \in Handlers :
    /\ AfterRelapse(h) /\ handler[h].outcome = "rejected"
    /\ cb.failures = CB_FAIL_THRESHOLD + 1 /\ cb.last_failure >= CB_RECOVERY_S
    /\ now > cb.last_failure

\* ------------------------------------------------------------ C40
\* a call without force that has returned and found no new ID
NothingNew(s) == Returned(s) /\ ~sched[s].force /\ sched[s].new = {}

\* C40: a call without force that found no new ID returns the early result, with
\* ids_to_publish, ids_published, batches_created and batches_failed all 0, and has
\* not touched the channel: it never reached the broker connect, sliced no batch,
\* created no publish task and sent nothing.
C40_NothingToPublish ==
  \A s \in Scheds :
    /\ (~sched[s].force /\ sched[s].pc \in {"connect", "publishing"}) => sched[s].new # {}
    /\ NothingNew(s) =>
         /\ sched[s].result.kind = "early"
         /\ sched[s].result.ids_to_publish = 0 /\ sched[s].result.ids_published = 0
         /\ sched[s].result.batches_created = 0 /\ sched[s].result.batches_failed = 0
         /\ sched[s].result.already_processed = Cardinality(sched[s].unique)
         /\ sched[s].batches = <<>> /\ sched[s].tasks = <<>>
         /\ sentLog[s] = {}

\* every ID of the second call was recorded by the first
C40_Witness ==
  \E s \in Scheds :
    /\ NothingNew(s)
    /\ calls[s] = MaxCalls
    /\ Cardinality(sched[s].unique) > DEDUP_BATCH_SIZE
    /\ sched[s].result.already_processed = Cardinality(sched[s].unique)
    /\ sched[s].result.initial_ids = MaxLen

====
